---- MODULE Spec2Model ----
(***************************************************************************)
(* Discovery engine of humming-discovering-agent-backend.                  *)
(*                                                                         *)
(* Part 1: WorkerPool (src/exploration/worker/worker_pool.py) driven by    *)
(*         ConversationExplorer (src/exploration/conversation_explorer.py).*)
(*         Threads are the driver (thread 0) and one executor thread per   *)
(*         running future (thread t runs the future of task t).  The code  *)
(*         under `with self.__task_lock` is executed in the steps that are *)
(*         visible to the readers that do not take the lock (is_idle,      *)
(*         shutdown, the shutdown-event checks).                           *)
(* Part 2: ConversationGraph (src/graph/conversation_graph.py).            *)
(***************************************************************************)
EXTENDS Integers, Sequences, FiniteSets, TLC

\* ---------------------------------------------------------------- bounds
NumWorkers == 2      \* len(workers)
MaxWorkers == 2      \* largest max_workers the pool is constructed with
MaxTasks == 3        \* tasks ever created
\* task_timeout; elapsed time is counted in units of it
TaskTimeout == 1

Workers == 1..NumWorkers
TaskIds == 1..MaxTasks
BTypes == {"ac", "pl"}
NoTime == -1
NoThread == -1
Driver == 0

VARIABLES
    workers,            \* constructor argument workers: the list of workers
    max_workers,        \* constructor argument max_workers
    task_queue,         \* Queue[ExplorationTask]: sequence of task ids
    active_tasks,       \* set of futures (a future is named by its task id)
    business_contexts,  \* business_type -> set of worker ids
    worker_tasks,       \* worker id -> time elapsed since the recorded start
                        \*   time (datetime.now() - start), NoTime when absent
    worker_semaphore,   \* value of Semaphore(max_workers)
    shutdown_event,     \* Event
    executor_shutdown,  \* ThreadPoolExecutor._shutdown
    stop_event,         \* ConversationExplorer.__stop_event
    callbacks,          \* futures whose done-callback is registered
    taskBt,             \* task id -> context.business_type
    taskWorker,         \* task id -> worker the future was submitted with
    tpc,                \* task id -> position of the task / future / thread
    child,              \* task id -> follow-up task its body is submitting
    task_lock,          \* owner of the RLock, NoThread when free
    lpc,                \* position of the lock owner inside the locked code
    cur,                \* task the lock owner has dequeued
    dpc,                \* position of the driver thread
    dtask,              \* task or future the driver is working on
    dwait,              \* shutdown(wait_for_completion=...)
    dtimeout,           \* shutdown(timeout=...) is not None
    dsnap,              \* futures the driver waits for / still has to cancel
    explore_exit,       \* why explore() left its loop: "none", "stop", "idle"
    enqueued            \* the tasks in the order line 70 put them in the queue

evVars == <<shutdown_event, executor_shutdown, stop_event>>
futVars == <<callbacks, taskBt, taskWorker, tpc, child>>
lockVars == <<task_lock, lpc, cur>>
drvVars == <<dpc, dtask, dwait, dtimeout, dsnap, explore_exit>>
poolVars == <<workers, enqueued, max_workers, task_queue, active_tasks,
              business_contexts,
              worker_tasks, worker_semaphore, evVars, futVars, lockVars,
              drvVars>>

\* ConversationGraph of src/graph/conversation_graph.py and its callers
VARIABLES
    root_id,            \* __root_id, NoId when None
    nodes,              \* __nodes in insertion order: sequence of Node records
    graph_lock,         \* owner of __lock, NoThread when free
    next_id,            \* the next fresh node id (uuid4())
    gpc,                \* caller -> position inside add_node
    garg,               \* caller -> the node passed to add_node
    gsim,               \* caller -> what add_node has decided under the lock
    gret,               \* caller -> what its last add_node call returned
    edges,              \* __edges: set of Edge records
    earg,               \* the edge passed to the last add_edge call
    eret,               \* how the last add_edge call ended
    edge_calls          \* number of add_edge calls made

edgeVars == <<edges, earg, eret, edge_calls>>
graphVars == <<root_id, nodes, graph_lock, next_id, gpc, garg, gsim, gret,
               edgeVars>>

\* exploration of conversation paths: the graph of
\* src/core/model/conversation_graph.py filled by the tasks of the pool
VARIABLES
    objs,               \* the ConversationNode objects created, by identity
    cnodes,             \* ConversationGraph.nodes: node id -> object
    cedges,             \* ConversationGraph.edges
    xqueue,             \* the ExplorationTasks accepted and not yet processed
    xcount,             \* number of tasks processed
    xlast,              \* what the last processed task did
    max_depth           \* WorkerPool.__max_depth

VARIABLES
    explore_stack,      \* DiscoveryService: the __explore_node calls going on
    disc_max_depth,     \* DiscoveryService.__max_depth, NoLimit when None
    disc_status,        \* "new", "running", "done" or "raised"
    analysed,           \* node id -> the analysis made of that node
    history             \* the last result of build_conversation_history

discVars == <<explore_stack, disc_max_depth, disc_status, analysed, history>>

VARIABLES
    path_result,        \* the last call of get_path_to_node and its result
    held,               \* the container a caller got from nodes or edges
    last_read           \* the last read of the nodes or edges property

readVars == <<path_result, held, last_read>>

expVars == <<objs, cnodes, cedges, xqueue, xcount, xlast, max_depth>>

vars == <<poolVars, graphVars, expVars, discVars, readVars>>

\* --------------------------------------------------------------- helpers
\* positions in which a task's future occupies an executor thread
ThreadBusy == {"processing", "sub_wait", "sub_cs", "cb_wait", "cb_cs"}
\* positions in which the body of the task is executing
BodyRunning == {"processing", "sub_wait", "sub_cs"}
\* positions in which the future is FINISHED or CANCELLED
FutureDone == {"done_unreg", "cb_wait", "cb_cs", "finished", "cancelled"}
\* accepted by submit_task and not yet finished
InFlight == {"queued", "dequeued", "pending"} \cup BodyRunning

FreeIds == {t \in TaskIds : tpc[t] = "none"}
NewId == CHOOSE t \in FreeIds : \A u \in FreeIds : t <= u

\* worker_pool.py lines 33-54
InitPool ==
    /\ workers \in {[i \in 1..n |-> i] : n \in 1..NumWorkers}
    /\ max_workers \in 1..MaxWorkers
    /\ enqueued = << >>
    /\ task_queue = << >>
    /\ active_tasks = {}
    /\ business_contexts = << >>
    /\ worker_tasks = [w \in Workers |-> NoTime]
    /\ worker_semaphore = max_workers
    /\ shutdown_event = FALSE
    /\ executor_shutdown = FALSE
    /\ stop_event = FALSE
    /\ callbacks = {}
    /\ taskBt = [t \in TaskIds |-> "none"]
    /\ taskWorker = [t \in TaskIds |-> 0]
    /\ tpc = [t \in TaskIds |-> "none"]
    /\ child = [t \in TaskIds |-> 0]
    /\ task_lock = NoThread
    /\ lpc = "none"
    /\ cur = 0
    /\ dpc = "ready"
    /\ dtask = 0
    /\ dwait = TRUE
    /\ dtimeout = FALSE
    /\ dsnap = {}
    /\ explore_exit = "none"

\* ------------------------------------------------- WorkerPool: submit_task
\* line 66: the shutdown check, made before the lock is taken
ShutdownCheck == shutdown_event

\* lines 70-73 for the thread that passed the check and holds the lock
PutTask(t) ==
    /\ task_queue' = Append(task_queue, t)
    /\ enqueued' = Append(enqueued, t)
    /\ business_contexts' =
          IF taskBt[t] \in DOMAIN business_contexts
          THEN business_contexts
          ELSE [k \in DOMAIN business_contexts \cup {taskBt[t]} |->
                   IF k = taskBt[t] THEN {} ELSE business_contexts[k]]

\* `with self.__task_lock` entered by a thread that does not own the RLock
LockFree == task_lock = NoThread

\* submit_task called by the driver (explore() line 68, or any client)
DriverSubmitCheck(bt) ==
    /\ dpc = "ready"
    /\ FreeIds # {}
    /\ IF ShutdownCheck
       THEN /\ tpc' = [tpc EXCEPT ![NewId] = "rejected"]
            /\ UNCHANGED <<dpc, dtask, taskBt>>
       ELSE /\ tpc' = [tpc EXCEPT ![NewId] = "created"]
            /\ taskBt' = [taskBt EXCEPT ![NewId] = bt]
            /\ dpc' = "sub_wait"
            /\ dtask' = NewId
    /\ UNCHANGED <<workers, enqueued, graphVars, expVars, discVars,
                   readVars>>
    /\ UNCHANGED <<max_workers, task_queue, active_tasks, business_contexts,
                   worker_tasks, worker_semaphore, evVars, callbacks,
                   taskWorker, child, lockVars, dwait, dtimeout, dsnap,
                   explore_exit>>

DriverSubmitEnter ==
    /\ dpc = "sub_wait"
    /\ LockFree
    /\ task_lock' = Driver
    /\ lpc' = "attempt"
    /\ dpc' = "sub_cs"
    /\ PutTask(dtask)
    /\ tpc' = [tpc EXCEPT ![dtask] = "queued"]
    /\ dtask' = 0
    /\ UNCHANGED <<workers, graphVars, expVars, discVars, readVars>>
    /\ UNCHANGED <<max_workers, active_tasks, worker_tasks, worker_semaphore,
                   evVars, callbacks, taskBt, taskWorker, child, cur, dwait,
                   dtimeout, dsnap,
                   explore_exit>>

\* ---------------------------------------- WorkerPool: __start_next_worker
\* the future of task t is done: its callback runs on the finishing thread
\* if it is registered already, else add_done_callback will run it
DonePos(t) == IF t \in callbacks THEN "cb_wait" ELSE "done_unreg"

\* how the owner of the lock leaves the locked code: submit_task returns to
\* the body, which returns through worker.cleanup (lines 147-148) and
\* finishes its future; a callback returns
RetTpc(base) ==
    IF task_lock = Driver THEN base
    ELSE [base EXCEPT ![task_lock] =
            IF base[task_lock] = "sub_cs" THEN DonePos(task_lock)
            ELSE "finished"]
RetDpc ==
    IF task_lock = Driver
    THEN (IF dpc = "sub_cs" THEN "ready" ELSE "sd_cancel")
    ELSE dpc

\* line 83: acquire(blocking=False)
CanAcquire_always == TRUE
CanAcquire == worker_semaphore > 0

\* lines 83-91
StartNextWorker ==
    /\ task_lock # NoThread
    /\ lpc = "attempt"
    /\ IF ~CanAcquire \/ task_queue = << >>
       THEN \* no slot, or slot taken and given back because the queue is empty
            /\ task_lock' = NoThread
            /\ lpc' = "none"
            /\ tpc' = RetTpc(tpc)
            /\ dpc' = RetDpc
            /\ UNCHANGED <<task_queue, worker_semaphore, cur>>
       ELSE /\ worker_semaphore' = worker_semaphore - 1
            /\ cur' = Head(task_queue)
            /\ task_queue' = Tail(task_queue)
            /\ tpc' = [tpc EXCEPT ![Head(task_queue)] = "dequeued"]
            /\ lpc' = "dequeued"
            /\ UNCHANGED <<task_lock, dpc>>
    /\ UNCHANGED <<workers, enqueued, graphVars, expVars, discVars,
                   readVars>>
    /\ UNCHANGED <<max_workers, active_tasks, business_contexts, worker_tasks,
                   evVars, callbacks, taskBt, taskWorker, child, dtask, dwait,
                   dtimeout, dsnap,
                   explore_exit>>

\* line 239: the worker's task has run longer than task_timeout
Stuck(elapsed) == elapsed # NoTime /\ elapsed > TaskTimeout

\* line 256: the worker is assigned to this business type already
HandlesContext(i, bc, bt) ==
    bt \in DOMAIN bc /\ i \in bc[bt]

\* lines 224-261: scan of the workers from index i on; wt and bc are the
\* start times and context sets as left by the reclaims made so far
RECURSIVE GetAvailableWorker(_, _, _, _)
GetAvailableWorker(i, wt, bc, bt) ==
    IF i > Len(workers)
    THEN [worker |-> 0, wt |-> wt, bc |-> bc]
    ELSE IF wt[i] # NoTime /\ ~Stuck(wt[i])
    THEN GetAvailableWorker(i + 1, wt, bc, bt)
    ELSE LET wt2 == IF Stuck(wt[i]) THEN [wt EXCEPT ![i] = NoTime] ELSE wt
             bc2 == IF Stuck(wt[i])
                    THEN [k \in DOMAIN bc |-> bc[k] \ {i}] ELSE bc
         IN  IF HandlesContext(i, bc2, bt)
             THEN GetAvailableWorker(i + 1, wt2, bc2, bt)
             ELSE [worker |-> i, wt |-> wt2, bc |-> bc2]

\* lines 96 and 118: the slot taken at line 83 is given back
ReleasedSlot_kept == worker_semaphore
ReleasedSlot == worker_semaphore + 1

\* lines 92-104
AssignWorker ==
    /\ task_lock # NoThread
    /\ lpc = "dequeued"
    /\ LET r == GetAvailableWorker(1, worker_tasks, business_contexts,
                                   taskBt[cur])
       IN  /\ worker_tasks' = r.wt
           /\ business_contexts' = r.bc
           /\ IF r.worker = 0
              THEN \* lines 94-97: put the task back, give the slot back
                   /\ task_queue' = Append(task_queue, cur)
                   /\ worker_semaphore' = ReleasedSlot
                   /\ tpc' = RetTpc([tpc EXCEPT ![cur] = "queued"])
                   /\ task_lock' = NoThread
                   /\ lpc' = "none"
                   /\ dpc' = RetDpc
                   /\ cur' = 0
                   /\ UNCHANGED <<taskWorker, taskBt>>
              ELSE IF executor_shutdown
              THEN \* executor.submit raises RuntimeError, lines 117-119
                   /\ worker_semaphore' = ReleasedSlot
                   /\ tpc' = RetTpc([tpc EXCEPT ![cur] = "lost"])
                   /\ taskBt' = [taskBt EXCEPT ![cur] = "none"]
                   /\ task_lock' = NoThread
                   /\ lpc' = "none"
                   /\ dpc' = RetDpc
                   /\ cur' = 0
                   /\ UNCHANGED <<task_queue, taskWorker>>
              ELSE \* lines 100-104: the future is handed to the executor
                   /\ tpc' = [tpc EXCEPT ![cur] = "pending"]
                   /\ taskWorker' = [taskWorker EXCEPT ![cur] = r.worker]
                   /\ lpc' = "submitted"
                   /\ UNCHANGED <<task_queue, worker_semaphore, task_lock,
                                  dpc, cur, taskBt>>
    /\ UNCHANGED <<workers, enqueued, graphVars, expVars, discVars,
                   readVars>>
    /\ UNCHANGED <<max_workers, active_tasks, evVars, callbacks, child, dtask,
                   dwait, dtimeout, dsnap,
                   explore_exit>>

\* lines 107-110
TrackTask ==
    /\ task_lock # NoThread
    /\ lpc = "submitted"
    /\ active_tasks' = active_tasks \cup {cur}
    /\ worker_tasks' = [worker_tasks EXCEPT ![taskWorker[cur]] = 0]
    /\ business_contexts' =
          [business_contexts EXCEPT ![taskBt[cur]] = @ \cup {taskWorker[cur]}]
    /\ lpc' = "tracked"
    /\ UNCHANGED <<workers, enqueued, graphVars, expVars, discVars,
                   readVars>>
    /\ UNCHANGED <<max_workers, task_queue, worker_semaphore, evVars, futVars,
                   task_lock, cur, drvVars>>

\* line 113: add_done_callback; a future that is already done runs the
\* callback at once in the calling thread
AddDoneCallback ==
    /\ task_lock # NoThread
    /\ lpc = "tracked"
    /\ IF tpc[cur] \in {"done_unreg", "cancelled"}
       THEN /\ lpc' = "inline_cb"
            /\ UNCHANGED <<callbacks, task_lock, tpc, dpc, cur>>
       ELSE /\ callbacks' = callbacks \cup {cur}
            /\ task_lock' = NoThread
            /\ lpc' = "none"
            /\ tpc' = RetTpc(tpc)
            /\ dpc' = RetDpc
            /\ cur' = 0
    /\ UNCHANGED <<workers, enqueued, graphVars, expVars, discVars,
                   readVars>>
    /\ UNCHANGED <<max_workers, task_queue, active_tasks, business_contexts,
                   worker_tasks, worker_semaphore, evVars, taskBt, taskWorker,
                   child, dtask, dwait, dtimeout, dsnap,
                   explore_exit>>

\* ------------------------------------------- WorkerPool: __task_completed
\* line 216
CompletedActive(f) == active_tasks \ {f}
\* lines 217-218
CompletedWorkerTasks(f) == [worker_tasks EXCEPT ![taskWorker[f]] = NoTime]
\* lines 219-220
CompletedContexts_kept(f) == business_contexts
CompletedContexts(f) ==
    [k \in DOMAIN business_contexts |->
        IF k = taskBt[f] THEN business_contexts[k] \ {taskWorker[f]}
        ELSE business_contexts[k]]
\* line 221
CompletedSemaphore_kept == worker_semaphore
CompletedSemaphore == worker_semaphore + 1

\* lines 216-222 up to the call of __start_next_worker; the lambda of
\* line 113 and its captured business type and worker id are dropped
TaskCompleted(f) ==
    /\ active_tasks' = CompletedActive(f)
    /\ worker_tasks' = CompletedWorkerTasks(f)
    /\ business_contexts' = CompletedContexts(f)
    /\ worker_semaphore' = CompletedSemaphore
    /\ taskBt' = [taskBt EXCEPT ![f] = "none"]
    /\ taskWorker' = [taskWorker EXCEPT ![f] = 0]
    /\ callbacks' = callbacks \ {f}
    /\ lpc' = "attempt"

\* the callback run by add_done_callback inside the locked code
InlineCallback ==
    /\ task_lock # NoThread
    /\ lpc = "inline_cb"
    /\ TaskCompleted(cur)
    /\ tpc' = [tpc EXCEPT ![cur] = IF @ = "cancelled" THEN @ ELSE "finished"]
    /\ cur' = 0
    /\ UNCHANGED <<workers, enqueued, graphVars, expVars, discVars,
                   readVars>>
    /\ UNCHANGED <<max_workers, task_queue, evVars, child, task_lock,
                   drvVars>>

\* the callback run by the executor thread that finished the future
CallbackEnter(t) ==
    /\ tpc[t] = "cb_wait"
    /\ LockFree
    /\ task_lock' = t
    /\ TaskCompleted(t)
    /\ tpc' = [tpc EXCEPT ![t] = "cb_cs"]
    /\ UNCHANGED <<workers, enqueued, graphVars, expVars, discVars,
                   readVars>>
    /\ UNCHANGED <<max_workers, task_queue, evVars, child, cur, drvVars>>

\* ------------------------- WorkerPool: __process_task_with_timeout (body)
\* ThreadPoolExecutor(max_workers=max_workers), lines 51-54
ExecutorThreadFree ==
    Cardinality({u \in TaskIds : tpc[u] \in ThreadBusy}) < max_workers

\* lines 132-138: the future starts running and the loop is entered
\* (task_timeout > 0); with the shutdown event set the body goes straight to
\* worker.cleanup (lines 147-148) and the future is done
BodyStart(t) ==
    /\ tpc[t] = "pending"
    /\ ExecutorThreadFree
    /\ tpc' = [tpc EXCEPT ![t] = IF shutdown_event THEN DonePos(t)
                                  ELSE "processing"]
    /\ UNCHANGED <<workers, enqueued, graphVars, expVars, discVars,
                   readVars>>
    /\ UNCHANGED <<max_workers, task_queue, active_tasks, business_contexts,
                   worker_tasks, worker_semaphore, evVars, callbacks, taskBt,
                   taskWorker, child, lockVars, drvVars>>

\* lines 141, 150-200: explore_path returns and the body decides about a
\* follow-up task:
\*   "backtrack": terminal child, an ancestor has a novel prompt (line 177)
\*   "expand":    non-terminal child below max_depth (lines 186-198)
\*   "stop":      nothing to submit, or an exception (lines 143-145)
\* A follow-up goes through submit_task line 66 (RuntimeError caught at line
\* 143).  A body that submits nothing returns through worker.cleanup.
ProcessTask(t, outcome) ==
    /\ tpc[t] = "processing"
    /\ outcome # "stop" => FreeIds # {}
    /\ IF outcome = "stop" \/ (outcome = "expand" /\ shutdown_event)
       THEN /\ tpc' = [tpc EXCEPT ![t] = DonePos(t)]
            /\ UNCHANGED <<child, taskBt>>
       ELSE IF ShutdownCheck
       THEN /\ tpc' = [tpc EXCEPT ![NewId] = "rejected", ![t] = DonePos(t)]
            /\ UNCHANGED <<child, taskBt>>
       ELSE /\ tpc' = [tpc EXCEPT ![NewId] = "created", ![t] = "sub_wait"]
            /\ taskBt' = [taskBt EXCEPT ![NewId] = taskBt[t]]
            /\ child' = [child EXCEPT ![t] = NewId]
    /\ UNCHANGED <<workers, enqueued, graphVars, expVars, discVars,
                   readVars>>
    /\ UNCHANGED <<max_workers, task_queue, active_tasks, business_contexts,
                   worker_tasks, worker_semaphore, evVars, callbacks,
                   taskWorker, lockVars, drvVars>>

\* submit_task lines 69-74 entered by the body
BodySubmitEnter(t) ==
    /\ tpc[t] = "sub_wait"
    /\ LockFree
    /\ task_lock' = t
    /\ lpc' = "attempt"
    /\ PutTask(child[t])
    /\ tpc' = [tpc EXCEPT ![child[t]] = "queued", ![t] = "sub_cs"]
    /\ child' = [child EXCEPT ![t] = 0]
    /\ UNCHANGED <<workers, graphVars, expVars, discVars, readVars>>
    /\ UNCHANGED <<max_workers, active_tasks, worker_tasks, worker_semaphore,
                   evVars, callbacks, taskBt, taskWorker, cur, drvVars>>

\* wall-clock time passes: every recorded start time gets one unit older
\* (elapsed times beyond the timeout are not told apart)
Tick ==
    /\ \E w \in Workers : worker_tasks[w] # NoTime /\ ~Stuck(worker_tasks[w])
    /\ worker_tasks' = [w \in Workers |->
          IF worker_tasks[w] = NoTime \/ Stuck(worker_tasks[w])
          THEN worker_tasks[w] ELSE worker_tasks[w] + 1]
    /\ UNCHANGED <<workers, enqueued, graphVars, expVars, discVars,
                   readVars>>
    /\ UNCHANGED <<max_workers, task_queue, active_tasks, business_contexts,
                   worker_semaphore, evVars, futVars, lockVars, drvVars>>

\* ------------------------------------- ConversationExplorer: explore / stop
\* conversation_explorer.py line 83
Stop ==
    /\ ~stop_event
    /\ stop_event' = TRUE
    /\ UNCHANGED <<workers, enqueued, graphVars, expVars, discVars,
                   readVars>>
    /\ UNCHANGED <<max_workers, task_queue, active_tasks, business_contexts,
                   worker_tasks, worker_semaphore, shutdown_event,
                   executor_shutdown, futVars, lockVars, drvVars>>

\* worker_pool.py line 317, first conjunct, read without the lock
IdleReadActive == Cardinality(active_tasks) = 0
\* worker_pool.py line 317, second conjunct, read without the lock
IdleReadQueue == task_queue = << >>

\* explore() line 71 with the stop event clear, then is_idle() up to its
\* first read; is_idle() returns False when a future is active
ExploreLoop ==
    /\ dpc = "ready"
    /\ ~stop_event
    /\ dpc' = IF IdleReadActive THEN "idle_read" ELSE "ready"
    /\ UNCHANGED <<workers, enqueued, graphVars, expVars, discVars,
                   readVars>>
    /\ UNCHANGED <<max_workers, task_queue, active_tasks, business_contexts,
                   worker_tasks, worker_semaphore, evVars, futVars, lockVars,
                   dtask, dwait, dtimeout, dsnap,
                   explore_exit>>

\* is_idle() returns after its second read: True in "idle_true"
IsIdleReturn ==
    /\ dpc = "idle_read"
    /\ dpc' = IF IdleReadQueue THEN "idle_true" ELSE "ready"
    /\ UNCHANGED <<workers, enqueued, graphVars, expVars, discVars,
                   readVars>>
    /\ UNCHANGED <<max_workers, task_queue, active_tasks, business_contexts,
                   worker_tasks, worker_semaphore, evVars, futVars, lockVars,
                   dtask, dwait, dtimeout, dsnap,
                   explore_exit>>

\* explore() lines 72-73 and 78-79: task_queue.empty() is read once more,
\* the loop is left and shutdown() is called with its default arguments
ExploreBreak ==
    /\ dpc = "idle_true"
    /\ dpc' = IF task_queue = << >> THEN "sd_guard" ELSE "ready"
    /\ explore_exit' = IF task_queue = << >> THEN "idle" ELSE explore_exit
    /\ dwait' = TRUE
    /\ dtimeout' = FALSE
    /\ UNCHANGED <<workers, enqueued, graphVars, expVars, discVars,
                   readVars>>
    /\ UNCHANGED <<max_workers, task_queue, active_tasks, business_contexts,
                   worker_tasks, worker_semaphore, evVars, futVars, lockVars,
                   dtask, dsnap>>

\* explore() line 71 with the stop event set, then lines 78-79
ExploreStopObserved ==
    /\ dpc = "ready"
    /\ stop_event
    /\ dpc' = "sd_guard"
    /\ explore_exit' = "stop"
    /\ dwait' = TRUE
    /\ dtimeout' = FALSE
    /\ UNCHANGED <<workers, enqueued, graphVars, expVars, discVars,
                   readVars>>
    /\ UNCHANGED <<max_workers, task_queue, active_tasks, business_contexts,
                   worker_tasks, worker_semaphore, evVars, futVars, lockVars,
                   dtask, dsnap>>

\* --------------------------------------------------- WorkerPool: shutdown
\* shutdown(wait_for_completion, timeout) called by a client of the pool
ShutdownCall(w, to) ==
    /\ dpc = "ready"
    /\ dpc' = "sd_guard"
    /\ dwait' = w
    /\ dtimeout' = to
    /\ UNCHANGED <<workers, enqueued, graphVars, expVars, discVars,
                   readVars>>
    /\ UNCHANGED <<max_workers, task_queue, active_tasks, business_contexts,
                   worker_tasks, worker_semaphore, evVars, futVars, lockVars,
                   dtask, dsnap, explore_exit>>

\* line 274, first disjunct
GuardQueue == task_queue # << >>
\* line 274, second disjunct: get_active_task_count() > 0
GuardActive == Cardinality(active_tasks) > 0

\* line 274, first disjunct, and line 275
ShutdownGuardQueue ==
    /\ dpc = "sd_guard"
    /\ dpc' = IF GuardQueue THEN "sd_noop" ELSE "sd_guard2"
    /\ UNCHANGED <<workers, enqueued, graphVars, expVars, discVars,
                   readVars>>
    /\ UNCHANGED <<max_workers, task_queue, active_tasks, business_contexts,
                   worker_tasks, worker_semaphore, evVars, futVars, lockVars,
                   dtask, dwait, dtimeout, dsnap,
                   explore_exit>>

\* line 274, second disjunct, and line 275
ShutdownGuardActive ==
    /\ dpc = "sd_guard2"
    /\ dpc' = IF GuardActive THEN "sd_noop" ELSE "sd_set"
    /\ UNCHANGED <<workers, enqueued, graphVars, expVars, discVars,
                   readVars>>
    /\ UNCHANGED <<max_workers, task_queue, active_tasks, business_contexts,
                   worker_tasks, worker_semaphore, evVars, futVars, lockVars,
                   dtask, dwait, dtimeout, dsnap,
                   explore_exit>>

\* line 277
ShutdownSetEvent ==
    /\ dpc = "sd_set"
    /\ shutdown_event' = TRUE
    /\ dpc' = "sd_wait"
    /\ UNCHANGED <<workers, enqueued, graphVars, expVars, discVars,
                   readVars>>
    /\ UNCHANGED <<max_workers, task_queue, active_tasks, business_contexts,
                   worker_tasks, worker_semaphore, executor_shutdown,
                   stop_event, futVars, lockVars, dtask, dwait, dtimeout,
                   dsnap, explore_exit>>

\* lines 279-284: wait() is called on the futures that are active now
ShutdownWaitStart ==
    /\ dpc = "sd_wait"
    /\ IF dwait /\ active_tasks # {}
       THEN dpc' = "sd_waiting" /\ dsnap' = active_tasks
       ELSE dpc' = "sd_cleanup" /\ UNCHANGED dsnap
    /\ UNCHANGED <<workers, enqueued, graphVars, expVars, discVars,
                   readVars>>
    /\ UNCHANGED <<max_workers, task_queue, active_tasks, business_contexts,
                   worker_tasks, worker_semaphore, evVars, futVars, lockVars,
                   dtask, dwait, dtimeout, explore_exit>>

\* wait() returns: every future is done, or the timeout has elapsed; dsnap
\* becomes not_done
ShutdownWaitReturn ==
    /\ dpc = "sd_waiting"
    /\ LET notDone == {f \in dsnap : tpc[f] \notin FutureDone}
       IN  /\ notDone = {} \/ dtimeout
           /\ dsnap' = notDone
    /\ dpc' = "sd_cancel"
    /\ UNCHANGED <<workers, enqueued, graphVars, expVars, discVars,
                   readVars>>
    /\ UNCHANGED <<max_workers, task_queue, active_tasks, business_contexts,
                   worker_tasks, worker_semaphore, evVars, futVars, lockVars,
                   dtask, dwait, dtimeout, explore_exit>>

\* lines 287-288: future.cancel() cancels a future that is not running yet
\* and runs its callbacks in the calling thread
ShutdownCancel ==
    /\ dpc = "sd_cancel"
    /\ IF dsnap = {}
       THEN /\ dpc' = "sd_cleanup"
            /\ UNCHANGED <<dsnap, dtask, tpc>>
       ELSE \E f \in dsnap :
            /\ dsnap' = dsnap \ {f}
            /\ IF tpc[f] = "pending"
               THEN /\ tpc' = [tpc EXCEPT ![f] = "cancelled"]
                    /\ IF f \in callbacks
                       THEN dpc' = "sd_cb_wait" /\ dtask' = f
                       ELSE UNCHANGED <<dpc, dtask>>
               ELSE UNCHANGED <<dpc, dtask, tpc>>
    /\ UNCHANGED <<workers, enqueued, graphVars, expVars, discVars,
                   readVars>>
    /\ UNCHANGED <<max_workers, task_queue, active_tasks, business_contexts,
                   worker_tasks, worker_semaphore, evVars, callbacks, taskBt,
                   taskWorker, child, lockVars, dwait, dtimeout,
                   explore_exit>>

\* the done-callback of a cancelled future, run by the driver
ShutdownCallbackEnter ==
    /\ dpc = "sd_cb_wait"
    /\ LockFree
    /\ task_lock' = Driver
    /\ TaskCompleted(dtask)
    /\ dpc' = "sd_cb_cs"
    /\ dtask' = 0
    /\ UNCHANGED <<workers, enqueued, graphVars, expVars, discVars,
                   readVars>>
    /\ UNCHANGED <<max_workers, task_queue, evVars, tpc, child, cur, dwait,
                   dtimeout, dsnap,
                   explore_exit>>

\* lines 291-299: worker.cleanup for every worker and every business type
\* seen; it clears conversation history only, which the pool does not read
ShutdownCleanup ==
    /\ dpc = "sd_cleanup"
    /\ dpc' = "sd_executor"
    /\ UNCHANGED <<workers, enqueued, graphVars, expVars, discVars,
                   readVars>>
    /\ UNCHANGED <<max_workers, task_queue, active_tasks, business_contexts,
                   worker_tasks, worker_semaphore, evVars, futVars, lockVars,
                   dtask, dwait, dtimeout, dsnap,
                   explore_exit>>

\* line 301: no future is accepted by the executor from now on
ShutdownExecutor ==
    /\ dpc = "sd_executor"
    /\ executor_shutdown' = TRUE
    /\ dpc' = IF dwait THEN "sd_join" ELSE "sd_done"
    /\ UNCHANGED <<workers, enqueued, graphVars, expVars, discVars,
                   readVars>>
    /\ UNCHANGED <<max_workers, task_queue, active_tasks, business_contexts,
                   worker_tasks, worker_semaphore, shutdown_event, stop_event,
                   futVars, lockVars, dtask, dwait, dtimeout, dsnap,
                   explore_exit>>

\* line 301 with wait=True: the executor threads are joined
ShutdownJoin ==
    /\ dpc = "sd_join"
    /\ \A t \in TaskIds : tpc[t] \notin ThreadBusy \cup {"pending"}
    /\ dpc' = "sd_done"
    /\ UNCHANGED <<workers, enqueued, graphVars, expVars, discVars,
                   readVars>>
    /\ UNCHANGED <<max_workers, task_queue, active_tasks, business_contexts,
                   worker_tasks, worker_semaphore, evVars, futVars, lockVars,
                   dtask, dwait, dtimeout, dsnap,
                   explore_exit>>

\* shutdown() returns ("sd_noop": from line 275; "sd_done": from the end);
\* called from explore() line 79, explore() returns as well ("returned")
ShutdownReturn ==
    /\ dpc \in {"sd_noop", "sd_done"}
    /\ dpc' = IF explore_exit = "none" THEN "ready" ELSE "returned"
    /\ dwait' = TRUE
    /\ dtimeout' = FALSE
    /\ dsnap' = {}
    /\ UNCHANGED <<workers, enqueued, graphVars, expVars, discVars,
                   readVars>>
    /\ UNCHANGED <<max_workers, task_queue, active_tasks, business_contexts,
                   worker_tasks, worker_semaphore, evVars, futVars, lockVars,
                   dtask, explore_exit>>

\* ------------------------------------------------------ text similarity
\* characters of the modelled texts: letters in both cases, punctuation and
\* white space
LowerOf(c) == CASE c = "H" -> "h" [] c = "N" -> "n" [] c = "T" -> "t"
                [] c = "E" -> "e" [] c = "R" -> "r" [] c = "M" -> "m"
                [] c = "I" -> "i" [] c = "A" -> "a" [] c = "L" -> "l"
                [] OTHER -> c
IsSpace(c) == c = " "
IsWord(c) == c \in {"h", "i", "n", "o", "u", "H", "N", "T", "E", "R", "M", "I",
                    "A", "L", "t", "e", "r", "m", "a", "l"}

\* re.sub(r'[^\w\s]', '', text): characters that are neither word
\* characters nor white space are removed
StripPunctuation(text) == SelectSeq(text, LAMBDA c : IsWord(c) \/ IsSpace(c))

\* str.lower()
Lower(text) == [k \in 1..Len(text) |-> LowerOf(text[k])]

\* ' '.join(text.split()): runs of white space become one blank, leading and
\* trailing white space is dropped
RECURSIVE JoinSplit(_, _)
JoinSplit(text, pendingBlank) ==
    IF text = << >> THEN << >>
    ELSE IF IsSpace(Head(text)) THEN JoinSplit(Tail(text), TRUE)
    ELSE (IF pendingBlank THEN <<" ", Head(text)>> ELSE <<Head(text)>>)
         \o JoinSplit(Tail(text), FALSE)

RECURSIVE DropLeadingSpace(_)
DropLeadingSpace(text) ==
    IF text # << >> /\ IsSpace(Head(text)) THEN DropLeadingSpace(Tail(text))
    ELSE text

\* conversation_graph.py line 116
NormalizeText(text) ==
    JoinSplit(DropLeadingSpace(Lower(StripPunctuation(text))), FALSE)

\* length of the common run of a from i and b from j, inside a[..ahi], b[..bhi]
RECURSIVE RunLen(_, _, _, _, _, _)
RunLen(a, b, i, j, ahi, bhi) ==
    IF i > ahi \/ j > bhi \/ a[i] # b[j] THEN 0
    ELSE 1 + RunLen(a, b, i + 1, j + 1, ahi, bhi)

\* difflib find_longest_match on a[alo..ahi], b[blo..bhi]: the longest common
\* block, the earliest in a and then the earliest in b among the longest
LongestMatch(a, b, alo, ahi, blo, bhi) ==
    LET cand == {<<i, j>> \in (alo..ahi) \X (blo..bhi) : a[i] = b[j]}
        len(p) == RunLen(a, b, p[1], p[2], ahi, bhi)
    IN  IF cand = {} THEN <<alo, blo, 0>>
        ELSE LET best == CHOOSE p \in cand :
                    \A q \in cand :
                        \/ len(p) > len(q)
                        \/ /\ len(p) = len(q)
                           /\ \/ p[1] < q[1]
                              \/ p[1] = q[1] /\ p[2] <= q[2]
             IN  <<best[1], best[2], len(best)>>

\* difflib get_matching_blocks: total size of the matching blocks, found by
\* the longest match and then, recursively, left and right of it
RECURSIVE MatchCount(_, _, _, _, _, _)
MatchCount(a, b, alo, ahi, blo, bhi) ==
    IF alo > ahi \/ blo > bhi THEN 0
    ELSE LET m == LongestMatch(a, b, alo, ahi, blo, bhi)
         IN  IF m[3] = 0 THEN 0
             ELSE m[3]
                  + MatchCount(a, b, alo, m[1] - 1, blo, m[2] - 1)
                  + MatchCount(a, b, m[1] + m[3], ahi, m[2] + m[3], bhi)

\* node_similarity_threshold = 0.60 (line 14), in hundredths
SimilarityThreshold == 60

\* SequenceMatcher(None, a, b).ratio() >= threshold, with
\* ratio = 2.0 * matches / (len(a) + len(b)), and 1.0 for two empty strings
RatioAtLeast_strict(a, b, hundredths) ==
    /\ Len(a) + Len(b) > 0
    /\ 200 * MatchCount(a, b, 1, Len(a), 1, Len(b))
          > hundredths * (Len(a) + Len(b))
RatioAtLeast(a, b, hundredths) ==
    IF Len(a) + Len(b) = 0 THEN 100 >= hundredths
    ELSE 200 * MatchCount(a, b, 1, Len(a), 1, Len(b))
            >= hundredths * (Len(a) + Len(b))

\* lines 108-111: the comparison made for one stored node
SimilarText(input, stored) ==
    RatioAtLeast(NormalizeText(input), NormalizeText(stored),
                 SimilarityThreshold)

\* ----------------------------------------------------- ConversationGraph
MaxNodes == 3
NodeIds == 1..MaxNodes
NoId == 0
GThreads == {1, 2}

\* decision points the callers pass in
DecisionPoints == {
    <<"H", "i", "!">>,
    <<"h", "i", " ", " ", "u">>,
    <<"N", "o", ".">> }

\* what a call returned: a node id, or raised for the ValueError of line 46
NoReturn == [raised |-> FALSE, id |-> NoId]

NoNode == [id |-> NoId, decision_point |-> << >>, is_initial |-> FALSE,
           is_terminal |-> FALSE]

StoredIds == {nodes[k].id : k \in 1..Len(nodes)}

\* user messages on the edges
Messages == {"m1", "m2"}
NoEdge == [source_node_id |-> NoId, target_node_id |-> NoId,
           user_message |-> "none"]

\* conversation_graph.py lines 14-19
InitGraph ==
    /\ root_id = NoId
    /\ nodes = << >>
    /\ graph_lock = NoThread
    /\ next_id = 1
    /\ gpc = [th \in GThreads |-> "idle"]
    /\ garg = [th \in GThreads |-> NoNode]
    /\ gsim = [th \in GThreads |-> [act |-> "none", id |-> NoId]]
    /\ gret = [th \in GThreads |-> NoReturn]
    /\ edges = {}
    /\ earg = NoEdge
    /\ eret = "none"
    /\ edge_calls = 0

\* lines 105-112: the first stored node, in insertion order, whose normalized
\* decision point is similar to the normalized input; NoId for None
RECURSIVE FindSimilarNode(_, _)
FindSimilarNode(decision_point, k) ==
    IF k > Len(nodes) THEN NoId
    ELSE IF SimilarText(decision_point, nodes[k].decision_point)
    THEN nodes[k].id
    ELSE FindSimilarNode(decision_point, k + 1)

\* `with self.__lock` (line 43) entered by a thread that does not own it
GraphLockFree_unguarded == TRUE
GraphLockFree == graph_lock = NoThread

\* a caller builds a Node with a fresh uuid4() id and calls add_node
AddNodeCall(th, dp, ini, term) ==
    /\ gpc[th] = "idle"
    /\ next_id <= MaxNodes
    /\ garg' = [garg EXCEPT ![th] = [id |-> next_id, decision_point |-> dp,
                                     is_initial |-> ini, is_terminal |-> term]]
    /\ next_id' = next_id + 1
    /\ gret' = [gret EXCEPT ![th] = NoReturn]
    /\ gpc' = [gpc EXCEPT ![th] = "wait"]
    /\ UNCHANGED <<root_id, nodes, graph_lock, gsim>>
    /\ UNCHANGED edgeVars
    /\ UNCHANGED <<poolVars, expVars, discVars, readVars>>

\* line 43
AddNodeEnter(th) ==
    /\ gpc[th] = "wait"
    /\ GraphLockFree
    /\ graph_lock' = th
    /\ gpc' = [gpc EXCEPT ![th] = "locked"]
    /\ UNCHANGED <<root_id, nodes, next_id, garg, gsim, gret>>
    /\ UNCHANGED edgeVars
    /\ UNCHANGED <<poolVars, expVars, discVars, readVars>>

\* line 45: a graph without a root takes an initial node only
RejectsNode_never(node) == FALSE
RejectsNode(node) == ~node.is_initial

\* line 51: a terminal node is stored as it is
StoredVerbatim_never(node) == FALSE
StoredVerbatim(node) == node.is_terminal

\* lines 55-57
SimilarNode_none(decision_point) == NoId
SimilarNode(decision_point) == FindSimilarNode(decision_point, 1)

\* lines 44-63: what add_node does with the node, and the id it returns
AddNodeDecision(node) ==
    IF root_id = NoId
    THEN (IF RejectsNode(node) THEN [act |-> "raise", id |-> NoId]
          ELSE [act |-> "root", id |-> node.id])
    ELSE IF StoredVerbatim(node)
    THEN [act |-> "store", id |-> node.id]
    ELSE LET similar == SimilarNode(node.decision_point)
         IN  IF similar = NoId
             THEN [act |-> "store", id |-> node.id]
             ELSE [act |-> "merge", id |-> similar]

\* lines 44-59: what the call is going to do
AddNodeDecide(th) ==
    /\ gpc[th] = "locked"
    /\ gsim' = [gsim EXCEPT ![th] = AddNodeDecision(garg[th])]
    /\ gpc' = [gpc EXCEPT ![th] = "decided"]
    /\ UNCHANGED <<root_id, nodes, graph_lock, next_id, garg, gret>>
    /\ UNCHANGED edgeVars
    /\ UNCHANGED <<poolVars, expVars, discVars, readVars>>

\* lines 46-49, 52-53, 60-63: the store or the merge, the return value (or
\* the ValueError of line 46) and the release of the lock
AddNodeReturn(th) ==
    /\ gpc[th] = "decided"
    /\ root_id' = IF gsim[th].act = "root" THEN garg[th].id ELSE root_id
    /\ nodes' = IF gsim[th].act \in {"root", "store"}
                THEN Append(nodes, garg[th]) ELSE nodes
    /\ gret' = [gret EXCEPT ![th] =
                  [raised |-> gsim[th].act = "raise", id |-> gsim[th].id]]
    /\ gsim' = [gsim EXCEPT ![th] = [act |-> "none", id |-> NoId]]
    /\ graph_lock' = IF graph_lock = th THEN NoThread ELSE graph_lock
    /\ gpc' = [gpc EXCEPT ![th] = "idle"]
    /\ UNCHANGED <<next_id, garg>>
    /\ UNCHANGED edgeVars
    /\ UNCHANGED <<poolVars, expVars, discVars, readVars>>

\* ------------------------------------------ ConversationGraph: add_edge
MaxEdgeCalls == 2

\* edge.py lines 14-21: edges are equal, and hash alike, when source and
\* target are equal
EdgeEq_message(e, f) == e = f
EdgeEq(e, f) ==
    /\ e.source_node_id = f.source_node_id
    /\ e.target_node_id = f.target_node_id

\* set.add (line 75): an element equal to a member leaves the set as it is
SetAdd_none(S, e) == S
SetAdd(S, e) == IF \E f \in S : EdgeEq(e, f) THEN S ELSE S \cup {e}

\* line 73
UnknownEndpoint_source(e) == e.source_node_id \notin StoredIds
UnknownEndpoint(e) ==
    \/ e.source_node_id \notin StoredIds
    \/ e.target_node_id \notin StoredIds

\* lines 72-75, the whole call under the lock
AddEdge(th, e) ==
    /\ gpc[th] = "idle"
    /\ GraphLockFree
    /\ edge_calls < MaxEdgeCalls
    /\ edge_calls' = edge_calls + 1
    /\ earg' = e
    /\ IF UnknownEndpoint(e)
       THEN /\ eret' = "raised"
            /\ edges' = edges
       ELSE /\ eret' = "ok"
            /\ edges' = SetAdd(edges, e)
    /\ UNCHANGED <<root_id, nodes, graph_lock, next_id, gpc, garg, gsim, gret>>
    /\ UNCHANGED <<poolVars, expVars, discVars, readVars>>

\* ------------------------------------------- exploration of conversations
MaxDepth == 1
MaxExplored == 3

\* normalized transcriptions of the agent, and the one of an error node
\* ("Error during exploration", conversation_worker.py line 154)
Transcripts == {"t1", "t2"}
ErrTranscript == "err"

\* states the oracle gives to a child (conversation_state.py lines 16-21)
AnalysisStates == {"IN_PROGRESS", "TERMINAL_SUCCESS"}

\* the customer response named by the analysis, the one of an error edge
\* ("Error occurred", line 167), and the candidate prompts of the customer
\* model (the empty text for no usable prompt)
AnalysisResponse == <<"n", "o">>
ErrResponse == <<"u", "h">>
Candidates == {<< >>, <<"N", "o", "!">>, <<"h", "i">>}

NoObj == 0
NoNid == << >>
RootNid == <<"root">>
NoTask == [node |-> NoObj, depth |-> 0, prompt |-> << >>]
NoLast == [task |-> NoTask, child |-> NoObj, failed |-> FALSE,
           kind |-> "none", visited |-> << >>]

\* conversation_node.py lines 77-84: the name of the state starts with
\* TERMINAL
Terminal(state) ==
    state \in {"TERMINAL_SUCCESS", "TERMINAL_TRANSFER", "TERMINAL_FALLBACK"}

\* node_identifier.py lines 21-24: the id is a hash of the normalized
\* transcription and the parent's id
GenerateId(transcript, parent) ==
    IF parent = NoNid THEN RootNid ELSE Append(parent, transcript)

\* response_similarity.py line 9
ResponseThreshold == 85

\* response_similarity.py lines 16-28
IsSimilar(response1, response2) ==
    RatioAtLeast(NormalizeText(response1), NormalizeText(response2),
                 ResponseThreshold)

\* response_similarity.py lines 30-41, as used by has_similar_response
\* (conversation_node.py line 97)
HasSimilarResponse_never(explored, response) == FALSE
HasSimilarResponse(explored, response) ==
    \E r \in explored : IsSimilar(response, r)

\* conversation_node.py lines 71-75
AddResponse(explored, prompt) ==
    IF HasSimilarResponse(explored, prompt) THEN explored
    ELSE explored \cup {prompt}

\* core/model/conversation_graph.py line 68 on the node map G
GetNode(G, nid) == IF nid \in DOMAIN G THEN G[nid] ELSE NoObj

\* core/model/conversation_graph.py lines 37-42 with a root present
StoreNode(G, nid, obj) == [n \in DOMAIN G \cup {nid} |->
                              IF n = nid THEN obj ELSE G[n]]

\* conversation_worker.py lines 153-162
ErrorNode_unmarked(parent) ==
    [nid |-> GenerateId(ErrTranscript, parent), state |-> "IN_PROGRESS",
     parent |-> parent, explored |-> {}]
ErrorNode(parent) ==
    [nid |-> GenerateId(ErrTranscript, parent), state |-> "ERROR",
     parent |-> parent, explored |-> {}]

\* conversation_worker.py lines 92-103
NewNode(transcript, state, parent) ==
    [nid |-> GenerateId(transcript, parent), state |-> state,
     parent |-> parent, explored |-> {}]

\* conversation_explorer.py lines 49-53
InitExplore ==
    /\ objs = << >>
    /\ cnodes = << >>
    /\ cedges = {}
    /\ xqueue = << >>
    /\ xcount = 0
    /\ xlast = NoLast
    /\ max_depth = MaxDepth

\* conversation_explorer.py lines 30-36 and 49-68: the pool is given the
\* explorer's max_depth, the initial node is stored as the root and the
\* initial task is submitted
ExploreStart(depth_limit) ==
    /\ objs = << >>
    /\ max_depth' = depth_limit
    /\ objs' = <<[nid |-> RootNid, state |-> "INITIAL", parent |-> NoNid,
                  explored |-> {}]>>
    /\ cnodes' = StoreNode(cnodes, RootNid, 1)
    /\ xqueue' = <<[node |-> 1, depth |-> 0, prompt |-> << >>]>>
    /\ UNCHANGED <<cedges, xcount, xlast>>
    /\ UNCHANGED <<poolVars, graphVars, discVars, readVars>>

\* worker_pool.py lines 158-181: the nodes visited by the backtracking loop
\* from object i on, with the candidate asked for each; O and G are the
\* objects and the node map as they are when the loop runs
RECURSIVE Backtrack(_, _, _, _, _)
Backtrack(O, G, i, k, cands) ==
    IF i = NoObj \/ Terminal(O[i].state) THEN << >>
    ELSE IF cands[k] # << >> /\ ~HasSimilarResponse(O[i].explored, cands[k])
    THEN <<[node |-> i, cand |-> cands[k]]>>
    ELSE <<[node |-> i, cand |-> cands[k]]>>
         \o Backtrack(O, G, GetNode(G, O[i].parent), k + 1, cands)

\* lines 164-178: the task submitted by the loop, if any
BacktrackTasks(O, visited, depth) ==
    IF visited = << >> THEN << >>
    ELSE LET last == visited[Len(visited)]
         IN  IF /\ last.cand # << >>
                /\ ~HasSimilarResponse(O[last.node].explored, last.cand)
             THEN <<[node |-> last.node, depth |-> depth, prompt |-> last.cand]>>
             ELSE << >>

RemoveAt(q, i) == [k \in 1..(Len(q) - 1) |-> IF k < i THEN q[k] ELSE q[k + 1]]

\* worker_pool.py line 186, no shutdown requested
ExpandsChild_always(depth) == TRUE
ExpandsChild(depth) == depth < max_depth

\* one task processed: explore_path (conversation_worker.py lines 48-137),
\* then worker_pool.py lines 151-200.  failed: a step of the round trip
\* raised and __create_error_node was called; cands: the answers of
\* generate_new_prompt to the backtracking loop
ExploreTask(i, failed, transcript, state, cands) ==
    /\ i \in 1..Len(xqueue)
    /\ xcount < MaxExplored
    /\ LET task == xqueue[i]
           current == objs[task.node].nid
           new_node == IF failed THEN ErrorNode(current)
                    ELSE NewNode(transcript, state, current)
           response == IF failed THEN ErrResponse ELSE AnalysisResponse
           c == Len(objs) + 1
           O == [Append(objs, new_node) EXCEPT ![task.node].explored =
                    AddResponse(objs[task.node].explored, response)]
           G == StoreNode(cnodes, new_node.nid, c)
           visited == IF Terminal(new_node.state)
                      THEN Backtrack(O, G, task.node, 1, cands) ELSE << >>
           submitted ==
               IF Terminal(new_node.state)
               THEN BacktrackTasks(O, visited, task.depth)
               ELSE IF ExpandsChild(task.depth)
               THEN <<[node |-> c, depth |-> task.depth + 1, prompt |-> << >>]>>
               ELSE << >>
       IN  /\ objs' = O
           /\ cnodes' = G
           /\ cedges' = cedges \cup {[source_node_id |-> current,
                                      target_node_id |-> new_node.nid,
                                      response |-> response]}
           /\ xqueue' = RemoveAt(xqueue, i) \o submitted
           /\ xcount' = xcount + 1
           /\ xlast' = [task |-> task, child |-> c, failed |-> failed,
                        kind |-> IF Terminal(new_node.state) THEN "backtrack"
                                 ELSE IF ExpandsChild(task.depth) THEN "expand"
                                 ELSE "leaf",
                        visited |-> visited]
           /\ max_depth' = max_depth
    /\ UNCHANGED <<poolVars, graphVars, discVars, readVars>>

\* ------------------------------------------------------ DiscoveryService
MaxDiscovered == 5
MaxLimit == 2

\* max_depth of the constructor: None, or a number
NoLimit == -1
DepthLimits == {NoLimit} \cup 0..MaxLimit

\* transcriptions of the agent's turns: the decision points, and one more
\* that is similar to none of them
Transcriptions == DecisionPoints \cup {<<"u", "n">>}

\* possible_responses of an analysis that is not terminal
ResponseLists == {<< >>, <<"yes">>, <<"yes", "no">>}
NoAnalysis == [is_terminal |-> FALSE, possible_responses |-> << >>]
NoHistory == [node |-> NoId, raised |-> FALSE, messages |-> << >>]

\* decision_point of the node that marks a terminal response (line 92)
TerminalText == <<"T", "E", "R", "M", "I", "N", "A", "L">>

InitDiscover ==
    /\ explore_stack = << >>
    /\ disc_max_depth = NoLimit
    /\ disc_status = "new"
    /\ analysed = << >>
    /\ history = NoHistory

\* the stored node with the given id
NodeOf(id) == nodes[CHOOSE k \in 1..Len(nodes) : nodes[k].id = id]

Reverse(q) == [k \in 1..Len(q) |-> q[Len(q) + 1 - k]]

\* conversation_graph.py lines 86-101: the messages collected from the node
\* up to the root, before they are reversed; raised for the KeyError of
\* line 90 and for the StopIteration of line 94
RECURSIVE CollectMessages(_)
CollectMessages(current_node_id) ==
    IF current_node_id = NoId THEN [raised |-> FALSE, messages |-> << >>]
    ELSE IF current_node_id \notin StoredIds
    THEN [raised |-> TRUE, messages |-> << >>]
    ELSE LET current_node == NodeOf(current_node_id)
             into == {e \in edges :
                        /\ e.source_node_id = current_node.parent_id
                        /\ e.target_node_id = current_node_id}
             rest == CollectMessages(current_node.parent_id)
             assistant == [role |-> "assistant",
                           content |-> current_node.decision_point]
         IN  IF current_node.parent_id = NoId
             THEN [raised |-> rest.raised,
                   messages |-> <<assistant>> \o rest.messages]
             ELSE IF into = {} THEN [raised |-> TRUE, messages |-> << >>]
             ELSE LET edge == CHOOSE e \in into : TRUE
                      user == [role |-> "user", content |-> edge.user_message]
                  IN  [raised |-> rest.raised,
                       messages |-> <<assistant, user>> \o rest.messages]

\* conversation_graph.py lines 77-103
BuildConversationHistory_unordered(node_id) ==
    LET collected == CollectMessages(node_id)
    IN  [node |-> node_id, raised |-> collected.raised,
         messages |-> IF collected.raised THEN << >> ELSE collected.messages]
BuildConversationHistory(node_id) ==
    LET collected == CollectMessages(node_id)
    IN  [node |-> node_id, raised |-> collected.raised,
         messages |-> IF collected.raised THEN << >>
                      ELSE Reverse(collected.messages)]

\* discovery_service.py line 80: a limit of None or 0 is no limit
DepthLimitReached(curr_node) ==
    /\ disc_max_depth # NoLimit
    /\ disc_max_depth # 0
    /\ curr_node.depth >= disc_max_depth

Frame(node) == [curr_node |-> node, phase |-> "enter", pending |-> << >>]
Pop == SubSeq(explore_stack, 1, Len(explore_stack) - 1)
Top == explore_stack[Len(explore_stack)]
StatusAfter(stack) == IF stack = << >> THEN "done" ELSE "running"

\* discovery_service.py lines 45-75: the initial call, the root node, and
\* the first __explore_node call
Discover(limit, transcription) ==
    /\ disc_status = "new"
    /\ root_id = NoId
    /\ LET root_node == [id |-> next_id, decision_point |-> transcription,
                         is_initial |-> TRUE, is_terminal |-> FALSE,
                         parent_id |-> NoId, depth |-> 0]
       IN  /\ AddNodeDecision(root_node).act = "root"
           /\ root_id' = root_node.id
           /\ nodes' = Append(nodes, root_node)
           /\ next_id' = next_id + 1
           /\ explore_stack' = <<Frame(root_node)>>
    /\ disc_max_depth' = limit
    /\ disc_status' = "running"
    /\ UNCHANGED <<analysed, history>>
    /\ UNCHANGED <<graph_lock, gpc, garg, gsim, gret, edgeVars>>
    /\ UNCHANGED <<poolVars, expVars, readVars>>

\* lines 78-82: the depth limit ends the call
ExploreDepthLimit ==
    /\ disc_status = "running"
    /\ Top.phase = "enter"
    /\ DepthLimitReached(Top.curr_node)
    /\ explore_stack' = Pop
    /\ disc_status' = StatusAfter(Pop)
    /\ UNCHANGED <<disc_max_depth, analysed, history>>
    /\ UNCHANGED <<poolVars, graphVars, expVars, readVars>>

\* lines 85-105: the analysis finds the response terminal (by a pattern, or
\* by the oracle, which is given the history of the node): the TERMINAL node
\* and its edge are added and the call returns
ExploreTerminal(by_pattern) ==
    /\ disc_status = "running"
    /\ Top.phase = "enter"
    /\ ~DepthLimitReached(Top.curr_node)
    /\ next_id <= MaxDiscovered
    /\ LET curr_node == Top.curr_node
           terminal_node == [id |-> next_id, decision_point |-> TerminalText,
                             is_initial |-> FALSE, is_terminal |-> TRUE,
                             parent_id |-> curr_node.id,
                             depth |-> curr_node.depth + 1]
           decision == AddNodeDecision(terminal_node)
           edge == [source_node_id |-> curr_node.id,
                    target_node_id |-> terminal_node.id,
                    user_message |-> "TERMINAL"]
       IN  /\ history' = IF by_pattern THEN history
                         ELSE BuildConversationHistory(curr_node.id)
           /\ analysed' = (curr_node.id :> [is_terminal |-> TRUE,
                                            possible_responses |-> << >>])
                          @@ analysed
           /\ nodes' = IF decision.act = "store"
                       THEN Append(nodes, terminal_node) ELSE nodes
           /\ edges' = SetAdd(edges, edge)
    /\ next_id' = next_id + 1
    /\ explore_stack' = Pop
    /\ disc_status' = StatusAfter(Pop)
    /\ UNCHANGED <<disc_max_depth>>
    /\ UNCHANGED <<root_id, graph_lock, gpc, garg, gsim, gret, earg, eret,
                   edge_calls>>
    /\ UNCHANGED <<poolVars, expVars, readVars>>

\* lines 85-88, 107-108: the oracle, given the history of the node, finds
\* the response not terminal and names the possible responses
ExploreAnalysed(responses) ==
    /\ disc_status = "running"
    /\ Top.phase = "enter"
    /\ ~DepthLimitReached(Top.curr_node)
    /\ history' = BuildConversationHistory(Top.curr_node.id)
    /\ analysed' = (Top.curr_node.id :> [is_terminal |-> FALSE,
                                         possible_responses |-> responses])
                   @@ analysed
    /\ explore_stack' = Pop \o <<[Top EXCEPT !.phase = "loop",
                                             !.pending = responses]>>
    /\ UNCHANGED <<disc_max_depth, disc_status>>
    /\ UNCHANGED <<poolVars, graphVars, expVars, readVars>>

\* line 141: add_node returned the id of the node it was given
IsNewNode_always(node_id, new_node) == TRUE
IsNewNode(node_id, new_node) == node_id = new_node.id

\* lines 108-145, one turn of the loop: the prompt is made from the history
\* of the current node, the call is placed, the node of the transcription
\* is added or merged, the edge is added, and a node that is new is explored
ExploreResponse(transcription) ==
    /\ disc_status = "running"
    /\ Top.phase = "loop"
    /\ Top.pending # << >>
    /\ next_id <= MaxDiscovered
    /\ LET curr_node == Top.curr_node
           new_node == [id |-> next_id, decision_point |-> transcription,
                        is_initial |-> FALSE, is_terminal |-> FALSE,
                        parent_id |-> curr_node.id,
                        depth |-> curr_node.depth + 1]
           decision == AddNodeDecision(new_node)
           edge == [source_node_id |-> curr_node.id,
                    target_node_id |-> decision.id,
                    user_message |-> Head(Top.pending)]
           turned == [Top EXCEPT !.pending = Tail(Top.pending)]
       IN  /\ history' = BuildConversationHistory(curr_node.id)
           /\ nodes' = IF decision.act = "store"
                       THEN Append(nodes, new_node) ELSE nodes
           /\ edges' = SetAdd(edges, edge)
           /\ explore_stack' = IF IsNewNode(decision.id, new_node)
                               THEN Pop \o <<turned, Frame(new_node)>>
                               ELSE Pop \o <<turned>>
    /\ next_id' = next_id + 1
    /\ UNCHANGED <<disc_max_depth, disc_status, analysed>>
    /\ UNCHANGED <<root_id, graph_lock, gpc, garg, gsim, gret, earg, eret,
                   edge_calls>>
    /\ UNCHANGED <<poolVars, expVars, readVars>>

\* line 108: the loop is over and the call returns
ExploreReturn ==
    /\ disc_status = "running"
    /\ Top.phase = "loop"
    /\ Top.pending = << >>
    /\ explore_stack' = Pop
    /\ disc_status' = StatusAfter(Pop)
    /\ UNCHANGED <<disc_max_depth, analysed, history>>
    /\ UNCHANGED <<poolVars, graphVars, expVars, readVars>>

\* lines 119, 214, 257-259: the call fails, the transcription is empty or
\* the analysis cannot be parsed: the error leaves discover()
ExploreRaises ==
    /\ disc_status = "running"
    /\ ~(Top.phase = "enter" /\ DepthLimitReached(Top.curr_node))
    /\ ~(Top.phase = "loop" /\ Top.pending = << >>)
    /\ explore_stack' = << >>
    /\ disc_status' = "raised"
    /\ UNCHANGED <<disc_max_depth, analysed, history>>
    /\ UNCHANGED <<poolVars, graphVars, expVars, readVars>>

\* --------------------------- core ConversationGraph: callers and readers
MaxCoreNodes == 3
MaxCoreEdges == 2

\* responses on the edges a caller adds
CoreResponses == {AnalysisResponse, ErrResponse}

NoPath == [called |-> FALSE, node_id |-> NoNid, hangs |-> FALSE,
           path |-> << >>]

NoRead == [count |-> 0, kind |-> "none", overlap |-> FALSE,
           stamp |-> << >>, items |-> << >>]

InitReads ==
    /\ path_result = NoPath
    /\ held = [kind |-> "none", alias |-> FALSE, items |-> << >>]
    /\ last_read = NoRead

\* core/model/conversation_graph.py lines 38-41: root_id is the id of the
\* first node added, which callers build without a parent
CoreRootId == IF RootNid \in DOMAIN cnodes THEN RootNid ELSE NoNid

\* lines 37-42: add_node by any caller; a graph without a root takes a node
\* in INITIAL state only (the ValueError of line 40 leaves it as it is)
CoreAddNode(transcript, state, parent) ==
    /\ Len(objs) < MaxCoreNodes
    /\ IF cnodes = << >>
       THEN /\ parent = NoNid
            /\ state = "INITIAL"
       ELSE /\ parent \in DOMAIN cnodes
            /\ state # "INITIAL"
    /\ LET node == NewNode(transcript, state, parent)
       IN  /\ objs' = Append(objs, node)
           /\ cnodes' = StoreNode(cnodes, node.nid, Len(objs) + 1)
    /\ UNCHANGED <<cedges, xqueue, xcount, xlast, max_depth>>
    /\ UNCHANGED <<poolVars, graphVars, discVars, readVars>>

\* lines 52-57: add_edge by any caller; both ends must be stored
CoreAddEdge(source, target, response) ==
    /\ Cardinality(cedges) < MaxCoreEdges
    /\ cedges' = IF source \in DOMAIN cnodes /\ target \in DOMAIN cnodes
                 THEN cedges \cup {[source_node_id |-> source,
                                    target_node_id |-> target,
                                    response |-> response]}
                 ELSE cedges
    /\ cedges' # cedges
    /\ UNCHANGED <<objs, cnodes, xqueue, xcount, xlast, max_depth>>
    /\ UNCHANGED <<poolVars, graphVars, discVars, readVars>>

\* the edges that lead to a node
EdgesTo(target_id) == {e \in cedges : e.target_node_id = target_id}

\* lines 111-116: the first edge, in the iteration order of the set, that
\* leads to the node; first_edge fixes that order for one call
FirstEdges ==
    {f \in [{t \in DOMAIN cnodes : EdgesTo(t) # {}} -> cedges] :
        \A t \in DOMAIN f : f[t] \in EdgesTo(t)}

\* line 102
AtRoot_never(current) == FALSE
AtRoot(current) == current = CoreRootId

\* lines 102-107: the edges collected from the node upwards; the loop does
\* not end when it comes back to a node it has left
RECURSIVE WalkUp(_, _, _)
WalkUp(first_edge, current, left) ==
    IF AtRoot(current) THEN [hangs |-> FALSE, path |-> << >>]
    ELSE IF current \notin DOMAIN first_edge
    THEN [hangs |-> FALSE, path |-> << >>]
    ELSE IF current \in left THEN [hangs |-> TRUE, path |-> << >>]
    ELSE LET edge == first_edge[current]
             rest == WalkUp(first_edge, edge.source_node_id,
                            left \cup {current})
         IN  [hangs |-> rest.hangs, path |-> <<edge>> \o rest.path]

\* lines 96-109
PathToNode(node_id, first_edge) ==
    IF node_id \notin DOMAIN cnodes THEN [hangs |-> FALSE, path |-> << >>]
    ELSE LET walked == WalkUp(first_edge, node_id, {})
         IN  [hangs |-> walked.hangs,
              path |-> IF walked.hangs THEN << >> ELSE Reverse(walked.path)]

\* the ids callers use: those of the nodes up to two levels below the
\* root, and one that is never stored
CoreIds ==
    {RootNid} \cup {<<"root", t>> : t \in Transcripts}
              \cup {<<"root", t, u>> : t \in Transcripts, u \in Transcripts}
AskedIds == CoreIds \cup {<<"none">>}

\* lines 87-109: one call of get_path_to_node
GetPathToNode(node_id) ==
    /\ cnodes # << >>
    /\ \E first_edge \in FirstEdges :
          LET result == PathToNode(node_id, first_edge)
          IN  path_result' = [called |-> TRUE, node_id |-> node_id,
                              hangs |-> result.hangs, path |-> result.path]
    /\ UNCHANGED <<held, last_read>>
    /\ UNCHANGED <<poolVars, graphVars, expVars, discVars>>

\* ------------------------------- ConversationGraph: the nodes and edges
\* properties and their callers
MaxReads == 2

\* dict.copy() and set.copy() (graph/conversation_graph.py lines 27 and 35):
\* the caller gets a container of its own with the same items; alias marks
\* a reference to the graph's own container
Copy_live(kind, container) ==
    [kind |-> kind, alias |-> TRUE, items |-> container]
Copy(kind, container) ==
    [kind |-> kind, alias |-> FALSE, items |-> container]

\* the property getters take no lock (lines 21-35)
ReadLockFree == TRUE

\* changes with every add_node and add_edge call that starts or returns
Stamp == <<next_id, edge_calls, gpc>>

\* lines 21-27: a caller reads the nodes property
ReadNodes(th) ==
    /\ gpc[th] = "idle"
    /\ ReadLockFree
    /\ last_read.count < MaxReads
    /\ held' = Copy("nodes", nodes)
    /\ last_read' = [count |-> last_read.count + 1, kind |-> "nodes",
                     overlap |-> graph_lock # NoThread,
                     stamp |-> Stamp, items |-> nodes]
    /\ UNCHANGED path_result
    /\ UNCHANGED <<poolVars, graphVars, expVars, discVars>>

\* lines 29-35: a caller reads the edges property
ReadEdges(th) ==
    /\ gpc[th] = "idle"
    /\ ReadLockFree
    /\ last_read.count < MaxReads
    /\ held' = Copy("edges", edges)
    /\ last_read' = [count |-> last_read.count + 1, kind |-> "edges",
                     overlap |-> graph_lock # NoThread,
                     stamp |-> Stamp, items |-> edges]
    /\ UNCHANGED path_result
    /\ UNCHANGED <<poolVars, graphVars, expVars, discVars>>

\* a node and an edge of the caller's own
ForeignNode == [id |-> MaxNodes + 1, decision_point |-> << >>,
                is_initial |-> FALSE, is_terminal |-> FALSE]
ForeignEdge == [source_node_id |-> MaxNodes + 1,
                target_node_id |-> MaxNodes + 1, user_message |-> "m1"]

\* the caller puts an entry into the dict it holds, or empties it; a dict
\* that is the graph's own changes the graph
ChangeHeldNodes(put) ==
    /\ held.kind = "nodes"
    /\ IF put
       THEN /\ \A k \in 1..Len(held.items) : held.items[k] # ForeignNode
            /\ held' = [held EXCEPT !.items = Append(@, ForeignNode)]
       ELSE /\ held.items # << >>
            /\ held' = [held EXCEPT !.items = << >>]
    /\ nodes' = IF held.alias THEN held'.items ELSE nodes
    /\ UNCHANGED <<root_id, graph_lock, next_id, gpc, garg, gsim, gret,
                   edgeVars>>
    /\ UNCHANGED <<path_result, last_read>>
    /\ UNCHANGED <<poolVars, expVars, discVars>>

\* the same for the set of edges it holds
ChangeHeldEdges(put) ==
    /\ held.kind = "edges"
    /\ IF put
       THEN /\ ForeignEdge \notin held.items
            /\ held' = [held EXCEPT !.items = @ \cup {ForeignEdge}]
       ELSE /\ held.items # {}
            /\ held' = [held EXCEPT !.items = {}]
    /\ edges' = IF held.alias THEN held'.items ELSE edges
    /\ UNCHANGED <<root_id, nodes, graph_lock, next_id, gpc, garg, gsim, gret,
                   earg, eret, edge_calls>>
    /\ UNCHANGED <<path_result, last_read>>
    /\ UNCHANGED <<poolVars, expVars, discVars>>

\* ------------------------------------------------------- specifications
Init == InitPool /\ InitGraph /\ InitExplore /\ InitDiscover /\ InitReads

\* the pool at work: submissions, scheduling, task bodies, completions
NextRun ==
    \/ \E bt \in BTypes : DriverSubmitCheck(bt)
    \/ DriverSubmitEnter
    \/ StartNextWorker
    \/ AssignWorker
    \/ TrackTask
    \/ AddDoneCallback
    \/ InlineCallback
    \/ \E t \in TaskIds : CallbackEnter(t)
    \/ \E t \in TaskIds : BodyStart(t)
    \/ \E t \in TaskIds, o \in {"backtrack", "expand", "stop"} :
          ProcessTask(t, o)
    \/ \E t \in TaskIds : BodySubmitEnter(t)
    \/ Tick

\* the driver loop of explore(), stop() and shutdown()
NextStop ==
    \/ Stop
    \/ ExploreLoop
    \/ IsIdleReturn
    \/ ExploreBreak
    \/ ExploreStopObserved
    \/ \E w \in BOOLEAN, to \in BOOLEAN : ShutdownCall(w, to)
    \/ ShutdownGuardQueue
    \/ ShutdownGuardActive
    \/ ShutdownSetEvent
    \/ ShutdownWaitStart
    \/ ShutdownWaitReturn
    \/ ShutdownCancel
    \/ ShutdownCallbackEnter
    \/ ShutdownCleanup
    \/ ShutdownExecutor
    \/ ShutdownJoin
    \/ ShutdownReturn

Next == NextRun \/ NextStop

Spec == Init /\ [][Next]_vars

\* the graph under concurrent add_node calls
NextGraph ==
    \/ \E th \in GThreads, dp \in DecisionPoints, ini \in BOOLEAN,
          term \in BOOLEAN : AddNodeCall(th, dp, ini, term)
    \/ \E th \in GThreads : AddNodeEnter(th)
    \/ \E th \in GThreads : AddNodeDecide(th)
    \/ \E th \in GThreads : AddNodeReturn(th)

\* the pool is constructed and left alone
InitGraphOnly ==
    Init /\ max_workers = MaxWorkers /\ Len(workers) = NumWorkers

SpecGraph == InitGraphOnly /\ [][NextGraph]_vars

\* the graph filled by one caller as DiscoveryService does (discovery_service.py
\* lines 62-70, 90-98, 122-131): the first node is initial, the later ones are
\* not; add_edge calls are made between the add_node calls
NextEdges ==
    \/ \E dp \in DecisionPoints, term \in BOOLEAN :
          AddNodeCall(1, dp, root_id = NoId, term)
    \/ AddNodeEnter(1)
    \/ AddNodeDecide(1)
    \/ AddNodeReturn(1)
    \/ \E src \in NodeIds, tgt \in NodeIds, msg \in Messages :
          AddEdge(1, [source_node_id |-> src, target_node_id |-> tgt,
                      user_message |-> msg])

SpecEdges == InitGraphOnly /\ [][NextEdges]_vars

\* the tasks of one exploration, processed one at a time in any order, each
\* with any result of its round trip and any answers of the customer model
NextExplore ==
    \/ \E depth_limit \in 0..MaxDepth : ExploreStart(depth_limit)
    \/ \E i \in 1..MaxExplored, failed \in BOOLEAN, transcript \in Transcripts,
          state \in AnalysisStates, cands \in [1..(MaxDepth + 1) -> Candidates] :
          ExploreTask(i, failed, transcript, state, cands)

SpecExplore == InitGraphOnly /\ [][NextExplore]_vars

\* one run of DiscoveryService.discover() on a new graph, with any answers
\* of the agent and of the oracle
NextDiscover ==
    \/ \E limit \in DepthLimits, transcription \in Transcriptions :
          Discover(limit, transcription)
    \/ ExploreDepthLimit
    \/ \E by_pattern \in BOOLEAN : ExploreTerminal(by_pattern)
    \/ \E responses \in ResponseLists : ExploreAnalysed(responses)
    \/ \E transcription \in Transcriptions : ExploreResponse(transcription)
    \/ ExploreReturn
    \/ ExploreRaises

SpecDiscover == InitGraphOnly /\ [][NextDiscover]_vars

\* the core graph filled by any caller through add_node and add_edge, and
\* read through get_path_to_node
NextCore ==
    \/ \E transcript \in Transcripts,
          state \in AnalysisStates \cup {"INITIAL"},
          parent \in CoreIds \cup {NoNid} :
          CoreAddNode(transcript, state, parent)
    \/ \E source \in CoreIds, target \in CoreIds, response \in CoreResponses :
          CoreAddEdge(source, target, response)
    \/ \E node_id \in AskedIds : GetPathToNode(node_id)

SpecCore == InitGraphOnly /\ [][NextCore]_vars

\* the graph filled by caller 1, with edges from the root, while caller 2
\* reads the nodes and edges properties and changes the containers it got
NextReads ==
    \/ \E dp \in DecisionPoints : AddNodeCall(1, dp, root_id = NoId, FALSE)
    \/ AddNodeEnter(1)
    \/ AddNodeDecide(1)
    \/ AddNodeReturn(1)
    \/ \E tgt \in NodeIds :
          AddEdge(1, [source_node_id |-> root_id, target_node_id |-> tgt,
                      user_message |-> "m1"])
    \/ ReadNodes(2)
    \/ ReadEdges(2)
    \/ \E put \in BOOLEAN : ChangeHeldNodes(put)
    \/ \E put \in BOOLEAN : ChangeHeldEdges(put)

SpecReads == InitGraphOnly /\ [][NextReads]_vars

\* No shutdown is requested and every step that the executor, the lock and
\* the task bodies can take is eventually taken; submissions by the driver
\* and the passing of time are not forced.
Fairness ==
    /\ WF_vars(DriverSubmitEnter)
    /\ WF_vars(StartNextWorker)
    /\ WF_vars(AssignWorker)
    /\ WF_vars(TrackTask)
    /\ WF_vars(AddDoneCallback)
    /\ WF_vars(InlineCallback)
    /\ \A t \in TaskIds :
          /\ WF_vars(CallbackEnter(t))
          /\ WF_vars(BodyStart(t))
          /\ WF_vars(\E o \in {"backtrack", "expand", "stop"} : ProcessTask(t, o))
          /\ WF_vars(BodySubmitEnter(t))

LiveSpec == Init /\ [][NextRun]_vars /\ Fairness

\* ------------------------------------------------------------------ claims
Executing == {t \in TaskIds : tpc[t] \in BodyRunning}
HandedOver == {t \in TaskIds : tpc[t] \in {"pending"} \cup BodyRunning}

\* C1: at every moment at most max_workers task bodies execute on the
\* pool's threads, and at most max_workers futures have been handed to the
\* executor without being done, however many tasks were submitted.
C1_BoundedConcurrency ==
    /\ Cardinality(Executing) <= max_workers
    /\ Cardinality(HandedOver) <= max_workers

\* more tasks than max_workers were submitted: max_workers of them execute,
\* another one waits in the queue
C1_Witness ==
    /\ max_workers = 2
    /\ Cardinality(Executing) = max_workers
    /\ task_queue # << >>

\* C2: two tasks with the same business type never execute at the same time.
C2_ContextAffinity ==
    \A t, u \in Executing : t # u => taskBt[t] # taskBt[u]

\* C3: is_idle() does not return True while an accepted task has not
\* finished (it is queued, dequeued, handed to the executor or executing).
C3_IdleMeansDone ==
    dpc = "idle_true" => \A t \in TaskIds : tpc[t] \notin InFlight

\* C4: every accepted task is eventually started and completed, and the
\* pool ends up with an empty queue and no task in flight, driven only by
\* the start attempts made at submission and at completion.
C4_PoolDrains ==
    /\ \A t \in TaskIds : (tpc[t] = "queued") ~> (tpc[t] = "finished")
    /\ <>[](/\ task_queue = << >>
            /\ active_tasks = {}
            /\ \A t \in TaskIds : tpc[t] \notin InFlight)

\* a completion callback has dequeued a waiting task and handed it to the
\* executor (continuation chaining)
C4_Witness ==
    /\ task_lock \in TaskIds
    /\ tpc[task_lock] = "cb_cs"
    /\ lpc = "tracked"

\* C5: when shutdown() returns, the shutdown event is set and the executor
\* is released, also when it was called with tasks queued or active.
C5_ShutdownTakesEffect ==
    dpc \in {"sd_noop", "sd_done"} => shutdown_event /\ executor_shutdown

\* C6: once the shutdown event is set, no submitted task is put in the queue
\* and no dequeued task is handed to the executor.
C6_NoWorkAfterShutdown ==
    [][shutdown_event =>
          \A t \in TaskIds :
              /\ tpc[t] = "created" => tpc'[t] # "queued"
              /\ tpc[t] = "dequeued" => tpc'[t] # "pending"]_vars

\* C7: after explore() has observed the stop signal and has called
\* shutdown(), the pool accepts no follow-up task from a running task and
\* starts no further task.
C7_StopHaltsPool ==
    [][(explore_exit = "stop" /\ dpc = "returned") =>
          \A t \in TaskIds :
              /\ tpc[t] = "processing" => tpc'[t] # "sub_wait"
              /\ tpc[t] = "dequeued" => tpc'[t] # "pending"]_vars

\* worker w runs a task body that has exceeded task_timeout
StuckRunning(w) ==
    /\ Stuck(worker_tasks[w])
    /\ \E t \in Executing : taskWorker[t] = w

\* C8: a start attempt made while a task waits in the queue and some worker
\* is stuck dequeues a task, and the worker then chosen for the dequeued task
\* is a stuck one, which is reclaimed.
C8_StuckWorkerReclaimed ==
    [][/\ (/\ lpc = "attempt"
           /\ lpc' # "attempt"
           /\ task_queue # << >>
           /\ \E w \in Workers : StuckRunning(w))
          => lpc' = "dequeued"
       /\ (/\ lpc = "dequeued"
           /\ lpc' # "dequeued"
           /\ ~executor_shutdown
           /\ \E w \in Workers : StuckRunning(w))
          => /\ lpc' = "submitted"
             /\ StuckRunning(taskWorker'[cur])]_vars

\* the done-callback of future f starts in this step
CompletionStep(f) ==
    \/ tpc[f] = "cb_wait" /\ tpc'[f] = "cb_cs"
    \/ lpc = "inline_cb" /\ cur = f /\ lpc' # "inline_cb"
    \/ dpc = "sd_cb_wait" /\ dtask = f /\ dpc' = "sd_cb_cs"

\* C9: the completion callback of a future removes the worker's start-time
\* entry, removes the worker from the task's business-context set, removes
\* the future from the active set, returns exactly one slot and goes on, with
\* the lock held, to one start attempt.
C9_CompletionReleases ==
    [][\A f \in TaskIds : CompletionStep(f) =>
          /\ worker_tasks'[taskWorker[f]] = NoTime
          /\ taskWorker[f] \notin business_contexts'[taskBt[f]]
          /\ f \notin active_tasks'
          /\ worker_semaphore' = worker_semaphore + 1
          /\ lpc' = "attempt"
          /\ task_lock' # NoThread]_vars

\* a body that took the lock for a follow-up task has finished, its
\* callback has run up to the start attempt
C9_Witness ==
    /\ task_lock \in TaskIds
    /\ tpc[task_lock] = "cb_cs"
    /\ lpc = "attempt"
    /\ task_queue # << >>
    /\ worker_semaphore > 0

\* callers th and u have both returned from add_node with a node id, for two
\* different non-terminal nodes whose decision points are similar to each
\* other and to no other stored node
SimilarPairAdded(th, u) ==
    /\ th # u
    /\ gpc[th] = "idle" /\ gpc[u] = "idle"
    /\ gret[th].id \in NodeIds /\ gret[u].id \in NodeIds
    /\ garg[th].id # garg[u].id
    /\ ~garg[th].is_terminal /\ ~garg[u].is_terminal
    /\ SimilarText(garg[th].decision_point, garg[u].decision_point)
    /\ SimilarText(garg[u].decision_point, garg[th].decision_point)
    /\ \A k \in 1..Len(nodes) :
          nodes[k].id \notin {garg[th].id, garg[u].id} =>
              /\ ~SimilarText(garg[th].decision_point, nodes[k].decision_point)
              /\ ~SimilarText(garg[u].decision_point, nodes[k].decision_point)

\* C10: when two threads add two non-terminal nodes with similar decision
\* points (similar to no other stored node), in any interleaving of the two
\* add_node calls, exactly one of the two is stored and both calls return
\* the id of that one.
C10_AddNodeAtomic ==
    \A th, u \in GThreads : SimilarPairAdded(th, u) =>
        /\ Cardinality({garg[th].id, garg[u].id} \cap StoredIds) = 1
        /\ gret[th].id = gret[u].id
        /\ gret[th].id \in {garg[th].id, garg[u].id} \cap StoredIds

\* the two calls overlapped: the node created later was stored, and the call
\* that had started first returned the later node's id
C10_Witness ==
    \E th, u \in GThreads :
        /\ SimilarPairAdded(th, u)
        /\ garg[th].id < garg[u].id
        /\ garg[u].id \in StoredIds
        /\ gret[th].id = garg[u].id
        /\ root_id \notin {garg[th].id, garg[u].id}
        /\ garg[th].decision_point # garg[u].decision_point

\* C11: once a node is stored, exactly one stored node is initial, and it is
\* the node stored first, the root.
C11_SingleInitial ==
    nodes # << >> =>
        /\ root_id = nodes[1].id
        /\ \A k \in 1..Len(nodes) : nodes[k].is_initial <=> k = 1

\* add_node returns to caller th in this step
AddNodeReturns(th) == gpc[th] = "decided" /\ gpc'[th] = "idle"

\* the node of caller th is similar to some stored node
HasSimilarStored(th) ==
    \E k \in 1..Len(nodes) :
        SimilarText(garg[th].decision_point, nodes[k].decision_point)

\* C12: with a root, add_node of a non-initial, non-terminal node that is
\* similar to a stored node returns the id of a stored node, stores nothing
\* and leaves the root, the node count and every stored node unchanged.
C12_MergeKeepsGraph ==
    [][\A th \in GThreads :
          (/\ AddNodeReturns(th)
           /\ root_id # NoId
           /\ ~garg[th].is_initial
           /\ ~garg[th].is_terminal
           /\ HasSimilarStored(th))
          => /\ nodes' = nodes
             /\ root_id' = root_id
             /\ ~gret'[th].raised
             /\ gret'[th].id \in StoredIds
             /\ gret'[th].id # garg[th].id]_vars

\* a node was merged into a stored node whose decision point differs from
\* its own before normalization
C12_Witness ==
    \E th \in GThreads :
        /\ gpc[th] = "idle"
        /\ gret[th].id \in StoredIds
        /\ gret[th].id # garg[th].id
        /\ ~garg[th].is_initial /\ ~garg[th].is_terminal
        /\ \E k \in 1..Len(nodes) :
              /\ nodes[k].id = gret[th].id
              /\ nodes[k].decision_point # garg[th].decision_point

C14_RootRule ==
    [][\A th \in GThreads :
          (AddNodeReturns(th) /\ root_id = NoId)
          => IF garg[th].is_initial
             THEN /\ root_id' = garg[th].id
                  /\ nodes' = <<garg[th]>>
                  /\ gret'[th] = [raised |-> FALSE, id |-> garg[th].id]
             ELSE /\ root_id' = NoId
                  /\ nodes' = nodes
                  /\ nodes = << >>
                  /\ gret'[th].raised]_vars

\* a call was refused on the empty graph, and a later call stored the root
C14_Witness ==
    \E th, u \in GThreads :
        /\ gret[th].raised
        /\ gpc[u] = "idle"
        /\ root_id # NoId
        /\ gret[u].id = root_id
        /\ garg[u].is_initial

\* an add_edge call is made in this step
AddEdgeStep == edge_calls' = edge_calls + 1

\* C15: add_edge with a source or a target that is not a stored node raises
\* and leaves the edge set unchanged, and both endpoints of every stored edge
\* are stored nodes.
C15_EdgeEndpointsStored ==
    [][/\ (AddEdgeStep /\ UnknownEndpoint(earg'))
          => (eret' = "raised" /\ edges' = edges)
       /\ \A e \in edges' :
             /\ e.source_node_id \in {nodes'[k].id : k \in 1..Len(nodes')}
             /\ e.target_node_id \in {nodes'[k].id : k \in 1..Len(nodes')}]_vars

\* an add_edge call with a stored source and an unknown target was refused
\* while an edge is stored
C15_Witness ==
    /\ eret = "raised"
    /\ earg.source_node_id \in StoredIds
    /\ earg.target_node_id \notin StoredIds
    /\ edges # {}

\* C16: add_edge of an edge between two nodes that an edge joins already
\* leaves the edge set as it is, the stored edge keeping its message.
C16_EdgeKeepFirst ==
    [][(/\ AddEdgeStep
        /\ \E f \in edges : /\ f.source_node_id = earg'.source_node_id
                            /\ f.target_node_id = earg'.target_node_id)
          => /\ edges' = edges
             /\ eret' = "ok"]_vars

\* a second edge between the same two nodes, with another message, was
\* accepted and the first one is the stored one
C16_Witness ==
    /\ eret = "ok"
    /\ earg \notin edges
    /\ \E f \in edges : /\ f.source_node_id = earg.source_node_id
                        /\ f.target_node_id = earg.target_node_id
                        /\ f.user_message # earg.user_message

\* the node stored in the graph under id nid
GraphNode(nid) == objs[cnodes[nid]]

\* C17: no queued task has a terminal node, and no stored edge leaves a
\* node that is terminal in the graph.
C17_TerminalIsLeaf ==
    /\ \A k \in 1..Len(xqueue) : ~Terminal(objs[xqueue[k].node].state)
    /\ \A e \in cedges : ~Terminal(GraphNode(e.source_node_id).state)

\* C18: no queued task has an ERROR node as its node, no stored edge leaves
\* an ERROR node, and a task whose child is an ERROR node backtracks.
C18_ErrorIsTerminal ==
    /\ \A k \in 1..Len(xqueue) : objs[xqueue[k].node].state # "ERROR"
    /\ \A e \in cedges : GraphNode(e.source_node_id).state # "ERROR"
    /\ (xlast.child # NoObj /\ objs[xlast.child].state = "ERROR")
          => xlast.kind = "backtrack"

\* a task is processed in this step
TaskProcessed == xcount' = xcount + 1

\* the error node, child of the node with id nid, as the graph has it after
\* the step
ErrorChildren(nid) ==
    {n \in DOMAIN cnodes' : /\ objs'[cnodes'[n]].state = "ERROR"
                            /\ objs'[cnodes'[n]].parent = nid}

NovelCandidate(v) ==
    /\ v.cand # << >>
    /\ \A r \in objs'[v.node].explored :
          ~RatioAtLeast(NormalizeText(v.cand), NormalizeText(r), ResponseThreshold)

\* C20: a task with a terminal child visits its current node and then the
\* stored parents, up to a terminal or missing one, asks one candidate for
\* each, and stops at the first node with a novel candidate: exactly one task
\* is enqueued, for that node, at the task's depth, with the candidate
\* pre-supplied; without a novel candidate nothing is enqueued.
C20_BacktrackFirstNovel ==
    [][(TaskProcessed /\ xlast'.kind = "backtrack") =>
          LET v == xlast'.visited
              n == Len(v)
          IN  /\ n >= 1
              /\ v[1].node = xlast'.task.node
              /\ \A k \in 2..n :
                    /\ objs'[v[k - 1].node].parent \in DOMAIN cnodes'
                    /\ v[k].node = cnodes'[objs'[v[k - 1].node].parent]
              /\ \A k \in 1..n : ~Terminal(objs'[v[k].node].state)
              /\ \A k \in 1..(n - 1) : ~NovelCandidate(v[k])
              /\ IF NovelCandidate(v[n])
                 THEN /\ Len(xqueue') = Len(xqueue)
                      /\ xqueue'[Len(xqueue')] =
                            [node |-> v[n].node, depth |-> xlast'.task.depth,
                             prompt |-> v[n].cand]
                 ELSE /\ Len(xqueue') = Len(xqueue) - 1
                      /\ \/ objs'[v[n].node].parent \notin DOMAIN cnodes'
                         \/ Terminal(objs'[cnodes'[objs'[v[n].node].parent]].state)]_vars

\* the first visited node had a candidate that was not novel, its parent had
\* a novel one, and the task for the parent was enqueued with it
C20_Witness ==
    /\ xlast.kind = "backtrack"
    /\ Len(xlast.visited) = 2
    /\ xlast.visited[1].cand # << >>
    /\ xqueue # << >>
    /\ xqueue[Len(xqueue)].node = xlast.visited[2].node
    /\ xqueue[Len(xqueue)].prompt = xlast.visited[2].cand

\* C21: after a task that was given the customer utterance u for its node
\* has been processed, u counts as explored on that node
\* (has_similar_response(u) is true), so u is not accepted there as a novel
\* candidate again: the task submitted by that step is not the same task.
C21_UtteranceExplored ==
    xlast.task.prompt # << >> =>
        /\ HasSimilarResponse(objs[xlast.task.node].explored, xlast.task.prompt)
        /\ \A k \in 1..Len(xqueue) : xqueue[k] # xlast.task

\* every task waiting in the queue, and the one processed last
TasksSeen == {xqueue[k] : k \in 1..Len(xqueue)} \cup
             (IF xcount > 0 THEN {xlast.task} ELSE {})

C23_DepthZeroHalts ==
    (max_depth = 0 /\ RootNid \in DOMAIN cnodes
                   /\ ~Terminal(GraphNode(RootNid).state)) =>
        /\ DOMAIN cnodes = {RootNid}
        /\ cedges = {}
        /\ xcount = 0

\* what the exploration's control flow depends on: the stored nodes, by id,
\* with their state, parent and explored responses, and the queued tasks
\* with the data of their node objects
StoredView(O, G) ==
    [n \in DOMAIN G |-> [state |-> O[G[n]].state, parent |-> O[G[n]].parent,
                         explored |-> O[G[n]].explored]]
QueueView(O, q) ==
    [k \in 1..Len(q) |-> [nid |-> O[q[k].node].nid,
                          explored |-> O[q[k].node].explored,
                          depth |-> q[k].depth, prompt |-> q[k].prompt]]

\* C24: with candidates drawn from a finite set a run terminates: every
\* processed task uses up something (it stores a node, records a response
\* as explored, or takes a task off the queue for good), so no processed
\* task leaves the stored nodes and the queue exactly as it found them; a
\* step that does can be repeated for ever by an oracle that repeats its
\* answers, and the queue never empties.
C24_TaskMakesProgress ==
    [][TaskProcessed =>
          ~(/\ StoredView(objs', cnodes') = StoredView(objs, cnodes)
            /\ QueueView(objs', xqueue') = QueueView(objs, xqueue))]_vars

\* the stored nodes made from a transcription under the root
RootChildren ==
    {k \in 1..Len(nodes) : nodes[k].parent_id = root_id /\ ~nodes[k].is_terminal}

\* C25: end to end, when the root's analysis is not terminal with the
\* candidates yes and no, both children's analyses are terminal and the run
\* is over, the graph has exactly 3 nodes (the root and its 2 children) and
\* exactly 2 edges.
C25_EndToEnd ==
    (/\ disc_status = "done"
     /\ root_id \in DOMAIN analysed
     /\ analysed[root_id] = [is_terminal |-> FALSE,
                             possible_responses |-> <<"yes", "no">>]
     /\ Cardinality(RootChildren) = 2
     /\ \A k \in RootChildren : /\ nodes[k].id \in DOMAIN analysed
                                /\ analysed[nodes[k].id].is_terminal) =>
        /\ Len(nodes) = 3
        /\ Cardinality(edges) = 2

\* the ids from the root down to the node, along parent_id
RECURSIVE ChainTo(_)
ChainTo(id) ==
    IF NodeOf(id).parent_id = NoId THEN <<id>>
    ELSE ChainTo(NodeOf(id).parent_id) \o <<id>>

\* the user message of the stored edge between two nodes
UserMessage(source, target) ==
    (CHOOSE e \in edges : e.source_node_id = source /\ e.target_node_id = target)
        .user_message

\* the messages are those of the chain, from the root to the node: the
\* assistant turn of each node, and before each node but the root the user
\* turn of the edge into it
RootToNodeOrder(messages, chain) ==
    /\ \A k \in 1..Len(chain) :
          /\ 2 * k - 1 <= Len(messages)
          /\ messages[2 * k - 1] =
                [role |-> "assistant",
                 content |-> NodeOf(chain[k]).decision_point]
    /\ \A k \in 1..(Len(chain) - 1) :
          messages[2 * k] = [role |-> "user",
                             content |-> UserMessage(chain[k], chain[k + 1])]

\* C26 as stated: build_conversation_history(n) for a stored node n at
\* depth d returns the turns in root-to-node order, 2*d of them for d > 0 and
\* 1 for the root.
C26_HistoryLength ==
    \A k \in 1..Len(nodes) :
        LET built == BuildConversationHistory(nodes[k].id)
        IN  /\ ~built.raised
            /\ Len(built.messages) =
                  IF nodes[k].depth = 0 THEN 1 ELSE 2 * nodes[k].depth
            /\ RootToNodeOrder(built.messages, ChainTo(nodes[k].id))

\* C26 amended: build_conversation_history(n) for a node n stored by
\* DiscoveryService at depth d returns 2*d + 1 turns in root-to-node order:
\* the root's assistant turn, then a user and an assistant turn per level;
\* the histories the service asks for are of that form.
C26_HistoryLengthAmended ==
    /\ \A k \in 1..Len(nodes) :
          LET built == BuildConversationHistory(nodes[k].id)
              chain == ChainTo(nodes[k].id)
          IN  /\ ~built.raised
              /\ Len(chain) = nodes[k].depth + 1
              /\ Len(built.messages) = 2 * nodes[k].depth + 1
              /\ RootToNodeOrder(built.messages, chain)
    /\ history.node # NoId =>
          /\ ~history.raised
          /\ Len(history.messages) = 2 * NodeOf(history.node).depth + 1
          /\ RootToNodeOrder(history.messages, ChainTo(history.node))

\* the service asked for the history of a node at depth 1 and got three
\* turns, and a node at depth 2 is stored
C26_Witness ==
    /\ history.node # NoId
    /\ NodeOf(history.node).depth = 1
    /\ Len(history.messages) = 3
    /\ \E k \in 1..Len(nodes) : nodes[k].depth = 2

\* the edges form a chain from the root to the node
ChainFromRoot(path, node_id) ==
    /\ path # << >>
    /\ path[1].source_node_id = CoreRootId
    /\ path[Len(path)].target_node_id = node_id
    /\ \A k \in 1..Len(path) : path[k] \in cedges
    /\ \A k \in 1..(Len(path) - 1) :
          path[k].target_node_id = path[k + 1].source_node_id

\* the nodes that a chain of stored edges connects to the root
RECURSIVE Connected(_, _)
Connected(reached, fuel) ==
    IF fuel = 0 THEN reached
    ELSE Connected(reached \cup {e.target_node_id : e \in
                      {f \in cedges : f.source_node_id \in reached}}, fuel - 1)
ConnectedToRoot(node_id) == node_id \in Connected({CoreRootId}, MaxCoreEdges + 1)

\* a call of get_path_to_node in this step
PathAsked == path_result' # path_result

\* C27: get_path_to_node(n) for a stored node n other than the root returns
\* the edges of a chain from the root to n, in that order, when a chain of
\* stored edges connects n to the root, and the empty list when none does.
C27_PathFromRoot ==
    [][(/\ PathAsked
        /\ path_result'.node_id \in DOMAIN cnodes
        /\ path_result'.node_id # CoreRootId) =>
          /\ ~path_result'.hangs
          /\ IF ConnectedToRoot(path_result'.node_id)
             THEN ChainFromRoot(path_result'.path, path_result'.node_id)
             ELSE path_result'.path = << >>]_vars

\* C28: get_path_to_node(root id) and get_path_to_node(id of no stored
\* node) return the empty list, and the call leaves the graph as it is.
C28_RootAndUnknownPath ==
    [][PathAsked =>
          /\ UNCHANGED <<objs, cnodes, cedges>>
          /\ (\/ path_result'.node_id = CoreRootId
              \/ path_result'.node_id \notin DOMAIN cnodes) =>
                 /\ ~path_result'.hangs
                 /\ path_result'.path = << >>]_vars

\* the path of the root was asked for in a graph that holds an edge into
\* the root and an edge out of it
C28_Witness ==
    /\ path_result.called
    /\ path_result.node_id = CoreRootId
    /\ path_result.path = << >>
    /\ \E e \in cedges : e.target_node_id = CoreRootId
    /\ \E e \in cedges : e.source_node_id = CoreRootId

\* a read of the nodes or of the edges property in this step
ReadStep == last_read'.count = last_read.count + 1

\* the caller changed the container it holds in this step
HeldChanged == last_read' = last_read /\ held' # held

\* C29: the nodes and edges properties return copies: a read gives what the
\* previous read of the same property gave when no add_node or add_edge call
\* ran in between, and putting entries into or taking them out of a
\* returned container leaves the graph's own nodes and edges as they are.
C29_SnapshotsAreCopies ==
    [][/\ HeldChanged => nodes' = nodes /\ edges' = edges
       /\ (ReadStep /\ last_read'.kind = last_read.kind
                    /\ last_read.stamp = Stamp) =>
              held'.items = last_read.items]_vars

\* the caller read the nodes twice with no add in between, emptied the dict
\* it got, and the graph still holds the nodes the reads gave
C29_Witness ==
    /\ last_read.count = 2
    /\ last_read.kind = "nodes"
    /\ last_read.items # << >>
    /\ held.kind = "nodes"
    /\ held.items = << >>
    /\ nodes = last_read.items
    /\ last_read.stamp = Stamp

\* C30: every read of the graph runs under the lock of add_node and
\* add_edge: no read happens while another caller is inside add_node.
C30_ReadsUnderLock == ~last_read.overlap

\* task a was put in the queue by submit_task (line 70) before task b
SubmittedBefore(a, b) ==
    \E i \in DOMAIN enqueued, j \in DOMAIN enqueued :
        i < j /\ enqueued[i] = a /\ enqueued[j] = b

\* the step of lines 100-104 for task b: its future is handed to the executor
Started(b) == tpc[b] = "dequeued" /\ tpc'[b] = "pending"

\* C31: queued tasks are started in the order of their submission: when a
\* task is started, no task that was submitted before it is still waiting
\* in the queue, a task that was dequeued and put back included.
C31_FifoStart ==
    [][\A a \in TaskIds, b \in TaskIds :
          (Started(b) /\ SubmittedBefore(a, b)) => tpc[a] # "queued"]_vars

\* the tasks whose body executes with worker w
RunsOn(w) == {t \in TaskIds : tpc[t] \in BodyRunning /\ taskWorker[t] = w}

\* the done-callback of future f performs lines 216-221 in this step
Completes(f) == f \in active_tasks /\ f \notin active_tasks'

\* C32: no worker executes two tasks at the same time, and the completion of
\* a task leaves the start-time entry and the context assignment of another
\* tracked task of the same worker (the task given to the worker after it
\* was reclaimed as stuck) in place.
C32_WorkerRunsOneTask ==
    [][/\ \A w \in Workers : Cardinality(RunsOn(w)) <= 1
       /\ \A f \in TaskIds, g \in TaskIds :
             (/\ Completes(f)
              /\ g # f
              /\ g \in active_tasks
              /\ taskWorker[g] = taskWorker[f]) =>
                 /\ worker_tasks'[taskWorker[g]] # NoTime
                 /\ taskWorker[g] \in business_contexts'[taskBt[g]]]_vars

\* the nodes whose __explore_node call has been entered and not yet analysed
Entered == {explore_stack[k].curr_node.id :
               k \in {j \in DOMAIN explore_stack :
                         explore_stack[j].phase = "enter"}}

\* a turn of the loop whose add_node call stored nothing: the child was
\* merged into a stored node
MergedTurn ==
    /\ disc_status = "running"
    /\ Top.phase = "loop"
    /\ next_id' = next_id + 1
    /\ nodes' = nodes

\* C33: a child that add_node merged into a stored node is not explored
\* again, the edge of the turn leads from the current node to a stored
\* node, and no node is analysed twice: a node whose exploration is entered
\* is stored and has no analysis yet, and no node is on the stack twice.
C33_MergedNotExplored ==
    [][/\ (Entered \subseteq StoredIds)'
       /\ (Entered \cap DOMAIN analysed = {})'
       /\ (\A j \in DOMAIN explore_stack, k \in DOMAIN explore_stack :
              explore_stack[j].curr_node.id = explore_stack[k].curr_node.id
                  => j = k)'
       /\ MergedTurn =>
             /\ Len(explore_stack') = Len(explore_stack)
             /\ \E e \in edges' :
                   /\ e.source_node_id = Top.curr_node.id
                   /\ e.target_node_id \in StoredIds
                   /\ e.target_node_id # next_id]_vars

\* a run that merged a child, analysed the root and a child, and is over
C33_Witness ==
    /\ disc_status = "done"
    /\ next_id - 1 > Len(nodes)
    /\ Cardinality(DOMAIN analysed) >= 2
    /\ \E e \in edges : e.target_node_id = root_id

\* the tasks that hold a concurrency slot: the task a start attempt has
\* dequeued, and the tasks handed to the executor whose done-callback has
\* not run yet
SlotHolders ==
    {t \in TaskIds : tpc[t] = "dequeued" \/ taskWorker[t] # 0}

\* C34: the free slots and the tasks holding a slot add up to max_workers
\* in every state, whichever way the start attempts and the completions
\* went.
C34_SlotAccounting ==
    /\ worker_semaphore \in 0..max_workers
    /\ worker_semaphore + Cardinality(SlotHolders) = max_workers

\* a task has completed and given its slot back, and a start attempt has
\* put a task back and released its slot: the task waits while a slot is
\* free and another task holds one
C34_Witness ==
    /\ task_lock = NoThread
    /\ \E t \in TaskIds : tpc[t] = "finished"
    /\ \E t \in TaskIds : tpc[t] = "queued"
    /\ worker_semaphore > 0
    /\ SlotHolders # {}

\* C35: a task that a start attempt took from the queue is handed to the
\* executor or is back in the queue when the attempt is over, also when the
\* executor refuses it: no accepted task is dropped.
C35_NoTaskLost ==
    [][\A t \in TaskIds :
          (tpc[t] = "dequeued" /\ tpc'[t] # "dequeued") =>
              \/ tpc'[t] = "pending"
              \/ tpc'[t] = "queued" /\ \E k \in DOMAIN task_queue' :
                                           task_queue'[k] = t]_vars

\* the number of edges on the parent chain from the root to object i
RECURSIVE ChainLength(_)
ChainLength(i) ==
    IF i = NoObj \/ objs[i].parent = NoNid THEN 0
    ELSE 1 + ChainLength(GetNode(cnodes, objs[i].parent))

\* C36: every task in the queue has as its depth the number of edges on the
\* parent chain from the root to its node: the initial task, the task of a
\* child, and the task the backtracking loop makes for an ancestor.
C36_TaskDepthIsChainLength ==
    \A k \in DOMAIN xqueue : xqueue[k].depth = ChainLength(xqueue[k].node)

\* the explored responses of the node stored under id nid in graph G with
\* objects O
ExploredOf(O, G, nid) == O[G[nid]].explored

\* C37: the node stored under an id never loses an explored response: after
\* every step, also one whose add_node call was given a node with an id
\* that is stored already, the node found under the id has every response
\* the node found there before had.
C37_ExploredKept ==
    [][\A nid \in DOMAIN cnodes :
          ExploredOf(objs, cnodes, nid) \subseteq
              ExploredOf(objs', cnodes', nid)]_vars

\* each edge of the path ends where the next one starts, and the last one
\* ends at the node
ContiguousTo(path, node_id) ==
    /\ \A k \in 1..(Len(path) - 1) :
          path[k].target_node_id = path[k + 1].source_node_id
    /\ path # << >> => path[Len(path)].target_node_id = node_id

\* C38: get_path_to_node returns for every stored node of every graph that
\* add_node and add_edge can build, a graph with a cycle of edges away from
\* the root included, and the list it returns is a contiguous chain of
\* edges that ends at the requested node.
C38_PathTerminates ==
    [][(PathAsked /\ path_result'.node_id \in DOMAIN cnodes) =>
          /\ ~path_result'.hangs
          /\ ContiguousTo(path_result'.path, path_result'.node_id)]_vars

\* without the calls that do not return, the chain part of the claim
ReturnedPathsContiguous ==
    [][(PathAsked /\ path_result'.node_id \in DOMAIN cnodes
                  /\ ~path_result'.hangs) =>
          ContiguousTo(path_result'.path, path_result'.node_id)]_vars

\* the node is stored, and so is every node on its parent chain, each one
\* below the root with a stored edge from its recorded parent to itself
RECURSIVE ChainStored(_)
ChainStored(id) ==
    /\ id \in StoredIds
    /\ LET node == NodeOf(id)
       IN  IF node.parent_id = NoId THEN id = root_id
           ELSE /\ \E e \in edges : /\ e.source_node_id = node.parent_id
                                    /\ e.target_node_id = id
                /\ ChainStored(node.parent_id)

\* C39: every node that build_conversation_history is called for during
\* discover(), the node of each __explore_node call, has its whole parent
\* chain stored, with the edge from each parent to its child, so no call
\* has failed on a missing node or edge, also after children were merged.
C39_HistoryChainStored ==
    /\ ~history.raised
    /\ history.node # NoId => ChainStored(history.node)
    /\ \A k \in DOMAIN explore_stack :
          ChainStored(explore_stack[k].curr_node.id)

\* the history of a node two levels below the root was built after a child
\* had been merged into the root
C39_Witness ==
    /\ history.node # NoId
    /\ NodeOf(history.node).depth = 2
    /\ Len(history.messages) = 5
    /\ next_id - 1 > Len(nodes)
    /\ \E e \in edges : e.target_node_id = root_id
====
